---------------------------- MODULE Spec2Model ----------------------------
(***************************************************************************)
(* sslly-nginx: the transactional reload pipeline of the supervisor.       *)
(*                                                                         *)
(* The model follows internal/app (Start, reload, handleReload,            *)
(* scheduleReload, the runtime cache), internal/backup (Manager) and the   *)
(* two proxy calls of internal/nginx (Reload, CheckHealth).                *)
(*                                                                         *)
(* Environment.  The process may exit at any point (Crash).  The operator  *)
(* may edit configs/ and ssl/; an edit takes effect at the next read of    *)
(* the directory, where UserEdit is taken.  The errors of the              *)
(* reload are those of the error taxonomy: an invalid configuration, a     *)
(* TLS scan error, a stage or activate error, a failing config test of     *)
(* the proxy (an invalid rendered config or a transient failure of         *)
(* `nginx -t`).  State-file and snapshot I/O of the backup manager fails   *)
(* only by its own preconditions (Commit of an id that is not in           *)
(* progress, RestoreLastGood without a last-good snapshot).                *)
(*                                                                         *)
(* SpecStatic follows the static sites of a hot reload                     *)
(* (prepareStaticSitesForReload and its finalize), SpecWatch the watcher   *)
(* of configs/ (internal/watcher) with its consumer in setupWatchers.      *)
(* SpecCall, SpecManager, SpecPrepare, SpecRender and SpecScan take one    *)
(* part alone: the names of the staged files, backup.Manager, the          *)
(* preparation of configs/ (config.Prepare), the renderer                  *)
(* (nginx.GenerateConfig) and the selection of the certificate scan;       *)
(* SpecPure config.ParseUpstream and app.domainLess, SpecFind              *)
(* ssl.FindCertificate.                                                    *)
(*                                                                         *)
(* SpecIO is Spec with the copies of backup.Manager.Commit allowed to      *)
(* fail, SpecStop is Spec with App.Stop and the consumers of               *)
(* setupWatchers.                                                          *)
(***************************************************************************)
EXTENDS Naturals, Sequences, FiniteSets

\* ------------------------------------------------------------- bounds
\* Snapshot ids the clock can hand out (ids are nanosecond timestamps and are
\* compared for equality only; an id that state.json no longer names is free
\* again; 0 models "").
MaxSnap == 2
\* Watcher events handled per process run (reloadDebounceSeq is a uint64).
MaxSeq == 2
\* Clock granularity: ticks per debounce window.
TicksPerWindow == 1
\* Mappings in one proxy.yaml.
MaxKeys == 2
\* Ports the automatic assignment tries, from 10000 on.
MaxAuto == 3
\* the events fsnotify holds before the forwarder receives them
MaxQueue == 1
\* the capacities of w.Events and w.Errors (64 and 16 in New)
EventsCap == 1
ErrorsCap == 1

\* ---------------------------------------------------------- constants
\* const debounceWindow = 800 * time.Millisecond
debounceWindow == 800

TickMs == debounceWindow \div TicksPerWindow

Ids == 1..MaxSnap
Main == 0
Timers == 1..MaxSeq
Procs == {Main} \cup Timers

\* ---------------------------------------------------------- file values
\* Versions of the user's routing table; "bad" does not load (config-invalid).
UserCfgs == {"A", "bad"}
\* Versions of the user's TLS material: which certificates ssl/ holds (the
\* model does not follow the bytes of a certificate file).
UserSsls == {"k1", "k2"}

NoConf == [cfg |-> "-", ssl |-> "-", certDir |-> "-"]
\* The nginx.conf shipped by the base image.
DefaultConf == [cfg |-> "default", ssl |-> "-", certDir |-> "-"]

\* A certificate map: which certificates it names (files) and the
\* directory its CertPath and KeyPath lie in.  The scan returns paths in
\* ssl/, stageRuntimeCertificates paths in runtime/current/certs.
scannedCertMap(files) == [files |-> files, dir |-> "ssl"]
activeCertMap(files) == [files |-> files, dir |-> "runtime/current"]

\* nginx.GenerateConfig: the text is a function of the effective routing
\* table and of the active certificate map, whose paths it writes into
\* ssl_certificate and ssl_certificate_key.
GenerateConfig(cfg, certMap) == [cfg |-> cfg, ssl |-> certMap.files, certDir |-> certMap.dir]

\* A directory of the runtime cache (stage/<id>, current, old):
\* certs/ and nginx/nginx.conf.  The field tested is history, not a file: the
\* proxy's config test has passed on this directory as current/.
NoDir == [certs |-> "-", conf |-> NoConf, tested |-> FALSE]
PartialDir == [certs |-> "partial", conf |-> NoConf, tested |-> FALSE]

\* The runtime cache root: current/, old/ and stage/<id>/ of the snapshot id
\* last begun (the stage directory of an earlier id is never read again).
EmptyRuntime == [current |-> NoDir, old |-> NoDir, stage |-> NoDir]

\* snapshots/<id>/ : runtime/ and nginx/nginx.conf (its copies of configs/ and
\* ssl/ are never read back).
NoSnapshot == [hasRuntime |-> FALSE, runtime |-> EmptyRuntime, nginx |-> NoConf]

\* state.json (an absent file reads as the zero state)
ZeroState == [lastGood |-> 0, inProgress |-> 0]

VARIABLES
  \* ---- disk (survives a crash)
  userCfg,        \* configs/ (user-owned)
  userSsl,        \* ssl/ (user-owned)
  bstate,         \* .sslly-backups/state.json
  snapshot,       \* .sslly-backups/snapshots/<last_good>/ (no other is ever read)
  rt,             \* .sslly-runtime/
  nginxConf,      \* /etc/nginx/nginx.conf
  \* ---- the proxy process
  proxy,          \* [up, conf]: the config the proxy is serving
  \* ---- process memory
  pc,             \* position of the main goroutine and of each timer callback
  loc,            \* locals of Start / handleReload per goroutine
  lastGoodConf,   \* a.lastGoodConf
  reloadMu,       \* a.reloadMu: its holder, or Free
  seq,            \* a.reloadDebounceSeq
  timer,          \* a.reloadDebounceTimer
  \* ---- history (not read by the program)
  hist,           \* steps of the running reload body, per goroutine
  crashInfo,      \* what the disk held when the process last exited
  uncommitted,    \* the config the proxy accepted and that was then not committed
  burst,          \* the current burst of watcher events
  \* ---- static sites (internal/app/static_sites.go)
  cfgPorts,       \* cfg.Ports of the configuration being applied
  staticSites,    \* a.staticSites
  running,        \* the static-site servers that listen and serve
  spc,            \* position of the reload in its static-site steps
  prep,           \* locals of prepareStaticSitesForReload, kept by finalize
  before,         \* history: the servers running when the reload began
  outcome,        \* history: the overall outcome of the reload
  \* ---- the path watcher of configs/ and its consumer (internal/watcher)
  fsDirs,         \* the directories that exist under configs/
  watches,        \* the directories registered with fsnotify
  osQueue,        \* fsnotify's Events and Errors, not yet received
  wEvents,        \* w.Events
  wErrors,        \* w.Errors
  fwd,            \* the forwarder goroutine of New
  consumer,       \* the goroutine of setupWatchers that reads the channels
  stopPc,         \* position of Stop
  handled,        \* history: the event the consumer received last, and
                  \* whether it called scheduleReload for it
  missed,         \* history: the last change in a new subdirectory that
                  \* produced no event
  \* ---- the functions of the pipeline taken alone
  call,           \* the last call: the function, its arguments, its result
  cfgDir,         \* the operator's files in configs/, and how far Start is
  \* ---- the consumers of setupWatchers, for App.Stop
  inHand          \* a consumer has received an event and not yet acted on it

diskVars == <<userCfg, userSsl, bstate, snapshot, rt, nginxConf>>
memVars == <<pc, loc, lastGoodConf, reloadMu, seq, timer>>
histVars == <<hist, crashInfo, uncommitted, burst>>
mainVars == <<diskVars, proxy, memVars, histVars>>
staticVars == <<cfgPorts, staticSites, running, spc, prep, before, outcome>>
watchVars == <<fsDirs, watches, osQueue, wEvents, wErrors, fwd, consumer, stopPc,
               handled, missed>>
notMain == <<staticVars, watchVars, call, cfgDir, inHand>>
notStatic == <<mainVars, watchVars, call, cfgDir, inHand>>
notWatch == <<mainVars, staticVars, call, cfgDir, inHand>>
notCall == <<mainVars, staticVars, watchVars, cfgDir, inHand>>
notPrepare == <<mainVars, staticVars, watchVars, inHand>>
vars == <<mainVars, staticVars, watchVars, call, cfgDir, inHand>>

Free == MaxSeq + 1

NoTimer == [armed |-> FALSE, seq |-> 0, left |-> 0]

ZeroLoc ==
  [snapID |-> 0, cfg |-> "-", certMap |-> "-", nginxConfig |-> NoConf,
   failAt |-> "-", restored |-> "-", lg0 |-> 0, recovered |-> "-"]

NoBurst == [ok |-> FALSE, first |-> 0, elapsed |-> 0, reloads |-> 0]

NoCrash == [mid |-> FALSE, lastGood |-> 0, inProgress |-> 0, dirty |-> FALSE]

NoPrep ==
  [desiredSites |-> {}, keep |-> {}, pendingAdds |-> {}, reservedPorts |-> {},
   todo |-> {}, dirs |-> {}, effective |-> {}, fast |-> FALSE]

\* No static site is configured or running.
InitStatic ==
  /\ cfgPorts = {}
  /\ staticSites = {}
  /\ running = {}
  /\ spc = "idle"
  /\ prep = NoPrep
  /\ before = {}
  /\ outcome = "-"

\* Paths are sequences of components: <<"configs", "proxy.yaml">> is
\* configs/proxy.yaml.
configDir == <<"configs">>
sslDir == <<"ssl">>
DefaultBackupRoot == configDir \o <<".sslly-backups">>
snapshotsDir == DefaultBackupRoot \o <<"snapshots">>
statePath == DefaultBackupRoot \o <<"state.json">>
runtimeDir == configDir \o <<".sslly-runtime">>
runtimeCurrentDir == runtimeDir \o <<"current">>
newSubdir == configDir \o <<"sites">>

\* The directories under configs/ when the watchers are set up: Start has
\* created the backup manager and run the startup reload before.
InitialDirs ==
  {configDir, DefaultBackupRoot, snapshotsDir, runtimeDir, runtimeCurrentDir, sslDir}

NoItem == [kind |-> "none", name |-> <<>>, op |-> "-"]
ErrItem == [kind |-> "error", name |-> <<>>, op |-> "-"]
Event(name, op) == [kind |-> "event", name |-> name, op |-> op]

NoHandled == [name |-> <<>>, op |-> "-", did |-> "-"]

InitWatch ==
  /\ fsDirs = InitialDirs
  /\ watches = {}
  /\ osQueue = <<>>
  /\ wEvents = <<>>
  /\ wErrors = <<>>
  /\ fwd = [pc |-> "none", item |-> NoItem]
  /\ consumer = "none"
  /\ stopPc = "none"
  /\ handled = NoHandled
  /\ missed = NoItem

NoCall == [fn |-> "-"]

\* The files of configs/ the loader knows by name, and what each holds:
\* "-" for no file, "user" for what the operator wrote, "legacy" for a
\* single-file config, "split" for what the migration took out of one,
\* "example" for a copy of the shipped example, "empty" for an empty file.
legacyConfigYAML == "config.yaml"
legacyConfigYML == "config.yml"
proxyConfigFile == "proxy.yaml"
corsConfigFile == "cors.yaml"
logsConfigFile == "logs.yaml"
SplitFiles == {proxyConfigFile, corsConfigFile, logsConfigFile}
LegacyFiles == {legacyConfigYAML, legacyConfigYML}
BackupFiles == {"config.backup.yaml", "config.backup.yml",
                "config.backup.<ts>.yaml", "config.backup.<ts>.yml"}
ConfigFiles == SplitFiles \cup LegacyFiles \cup BackupFiles
NoFiles == [f \in ConfigFiles |-> "-"]

Init ==
  /\ InitStatic
  /\ InitWatch
  /\ call = NoCall
  /\ cfgDir = [files |-> NoFiles, phase |-> "down"]
  /\ inHand = FALSE
  /\ userCfg \in UserCfgs
  /\ userSsl \in UserSsls
  /\ bstate = ZeroState
  /\ snapshot = NoSnapshot
  /\ rt = EmptyRuntime
  /\ nginxConf = DefaultConf
  /\ proxy = [up |-> FALSE, conf |-> NoConf]
  /\ pc = [g \in Procs |-> IF g = Main THEN "down" ELSE "none"]
  /\ loc = [g \in Procs |-> ZeroLoc]
  /\ lastGoodConf = NoConf
  /\ reloadMu = Free
  /\ seq = 0
  /\ timer = NoTimer
  /\ hist = [g \in Procs |-> <<>>]
  /\ crashInfo = NoCrash
  /\ uncommitted = NoConf
  /\ burst = NoBurst

\* ------------------------------------------------------------ helpers
Goto(g, p) == pc' = [pc EXCEPT ![g] = p]
Log(g, step) == hist' = [hist EXCEPT ![g] = Append(@, step)]
SnapID(g) == loc[g].snapID

\* What a failing step of Start / handleReload does next: both abort the
\* snapshot.  The locals of reload() are not read again.
Fail(g, at) ==
  /\ loc' = [loc EXCEPT ![g] = [ZeroLoc EXCEPT !.snapID = SnapID(g),
                                               !.lg0 = loc[g].lg0, !.failAt = at]]
  /\ hist' = [hist EXCEPT ![g] = <<>>]
  /\ Goto(g, "abort")

\* `nginx -t` reads /etc/nginx/nginx.conf and the certificate files it names
\* under current/.  It cannot pass without them; with them it passes unless the
\* rendered text is invalid or the test fails transiently.
Testable ==
  /\ nginxConf # NoConf
  /\ nginxConf.ssl # "-" => (rt.current # NoDir /\ rt.current.certs # "partial")
TestOutcomes == IF Testable THEN BOOLEAN ELSE {FALSE}
\* The runtime cache after a config test: a pass is a pass of the directory
\* that is current/ when its nginx.conf is the one tested.
AfterTest(pass) ==
  IF pass /\ rt.current # NoDir /\ rt.current.conf = nginxConf
    THEN [rt EXCEPT !.current.tested = TRUE]
    ELSE rt

\* --------------------------------------------------- backup.Manager
\* Begin: create snapshots/<id>/, set in-progress, persist.
BeginState(id) == [bstate EXCEPT !.inProgress = id]

\* Abort: clear in-progress if it is id.
AbortStateKept(id) == bstate
AbortState(id) == IF bstate.inProgress = id THEN [bstate EXCEPT !.inProgress = 0] ELSE bstate

\* Commit: the snapshot directory after the four copies.
CommitSnapshot == [hasRuntime |-> TRUE, runtime |-> rt, nginx |-> nginxConf]
\* Commit: promote id to last-good and clear in-progress.
CommitState(id) == [lastGood |-> id, inProgress |-> 0]

\* restoreSnapshotLocked, first half: replaceDirContents(runtimeDir, runtimeSrc).
RestoredRuntimeKept == rt
RestoredRuntime == IF snapshot.hasRuntime THEN snapshot.runtime ELSE EmptyRuntime
\* restoreSnapshotLocked, second half: copyFile(nginxSrc, nginxConf), a missing
\* source being no error.
RestoredConfKept == nginxConf
RestoredConf == IF snapshot.nginx # NoConf THEN snapshot.nginx ELSE nginxConf

\* -------------------------------------------------------- app.Start
\* The process starts: New(), backup.NewManager, config.Prepare.
AppStart ==
  /\ pc[Main] = "down"
  /\ Goto(Main, "recover")
  /\ UNCHANGED <<diskVars, proxy, loc, lastGoodConf, reloadMu, seq, timer, histVars>>
  /\ UNCHANGED notMain

\* The state file with the in-progress marker cleared.
MarkerKept == bstate
MarkerCleared == [bstate EXCEPT !.inProgress = 0]

\* MaybeRestoreAfterCrash, up to the decision.
MaybeRestoreAfterCrash ==
  /\ pc[Main] = "recover"
  /\ IF bstate.inProgress = 0
       THEN /\ Goto(Main, "begin")
            /\ loc' = [loc EXCEPT ![Main].restored = "no"]
            /\ UNCHANGED bstate
       ELSE IF bstate.lastGood = 0
         THEN /\ bstate' = MarkerCleared
              /\ Goto(Main, "begin")
              /\ loc' = [loc EXCEPT ![Main].restored = "no"]
         ELSE /\ Goto(Main, "wipe")
              /\ UNCHANGED <<bstate, loc>>
  /\ UNCHANGED <<userCfg, userSsl, snapshot, rt, nginxConf, proxy,
                 lastGoodConf, reloadMu, seq, timer, histVars>>
  /\ UNCHANGED notMain

\* MaybeRestoreAfterCrash, after restoreSnapshotLocked: clear the marker, return true.
ClearAfterRestore ==
  /\ pc[Main] = "clear"
  /\ bstate' = [bstate EXCEPT !.inProgress = 0]
  /\ loc' = [loc EXCEPT ![Main].restored = "yes"]
  /\ Goto(Main, "begin")
  /\ UNCHANGED <<userCfg, userSsl, snapshot, rt, nginxConf, proxy,
                 lastGoodConf, reloadMu, seq, timer, histVars>>
  /\ UNCHANGED notMain

\* A directory while os.RemoveAll removes it, or copyDir fills it, file by file.
Partly(dir) == IF dir = NoDir THEN NoDir ELSE PartialDir

\* restoreSnapshotLocked: replaceDirContents removes every entry of runtimeDir,
\* each with os.RemoveAll, current/ first ...
restoreWipeBegin(g) ==
  /\ pc[g] = "wipe"
  /\ rt' = [rt EXCEPT !.current = Partly(rt.current)]
  /\ Goto(g, "wipe2")
  /\ UNCHANGED <<userCfg, userSsl, bstate, snapshot, nginxConf, proxy,
                 loc, lastGoodConf, reloadMu, seq, timer, histVars>>
  /\ UNCHANGED notMain

restoreWipe(g) ==
  /\ pc[g] = "wipe2"
  /\ rt' = EmptyRuntime
  /\ Goto(g, "copy")
  /\ UNCHANGED <<userCfg, userSsl, bstate, snapshot, nginxConf, proxy,
                 loc, lastGoodConf, reloadMu, seq, timer, histVars>>
  /\ UNCHANGED notMain

\* ... and copies snapshots/<last_good>/runtime into it with copyDir, one
\* file after the other, current/ first
restoreCopyBegin(g) ==
  /\ pc[g] = "copy"
  /\ rt' = [EmptyRuntime EXCEPT !.current = Partly(RestoredRuntime.current)]
  /\ Goto(g, "copy2")
  /\ UNCHANGED <<userCfg, userSsl, bstate, snapshot, nginxConf, proxy,
                 loc, lastGoodConf, reloadMu, seq, timer, histVars>>
  /\ UNCHANGED notMain

restoreCopyIntoSsl(g) ==
  /\ pc[g] = "copy2"
  /\ rt' = RestoredRuntime
  /\ userSsl' = IF RestoredRuntime.current.certs \in UserSsls
                  THEN RestoredRuntime.current.certs ELSE userSsl
  /\ Goto(g, "rconf")
  /\ UNCHANGED <<userCfg, bstate, snapshot, nginxConf, proxy,
                 loc, lastGoodConf, reloadMu, seq, timer, histVars>>
  /\ UNCHANGED notMain
restoreCopy(g) ==
  /\ pc[g] = "copy2"
  /\ rt' = RestoredRuntime
  /\ Goto(g, "rconf")
  /\ UNCHANGED <<userCfg, userSsl, bstate, snapshot, nginxConf, proxy,
                 loc, lastGoodConf, reloadMu, seq, timer, histVars>>
  /\ UNCHANGED notMain

\* ... then copies the snapshot's nginx.conf over the proxy's config file.
restoreConf(g) ==
  /\ pc[g] = "rconf"
  /\ nginxConf' = RestoredConf
  /\ Goto(g, IF g = Main THEN "clear" ELSE "save2")
  /\ UNCHANGED <<userCfg, userSsl, bstate, snapshot, rt, proxy,
                 loc, lastGoodConf, reloadMu, seq, timer, histVars>>
  /\ UNCHANGED notMain

\* The id the clock returns: none that state.json names.
FreshIds == Ids \ {bstate.lastGood, bstate.inProgress}
NewId == CHOOSE id \in FreshIds : TRUE

\* backupManager.Begin(), from Start and from handleReload: a new id, whose
\* stage directory does not exist yet.
Begin(g) ==
  /\ pc[g] = "begin"
  /\ FreshIds # {}
  /\ bstate' = BeginState(NewId)
  /\ loc' = [loc EXCEPT ![g] = [ZeroLoc EXCEPT !.snapID = NewId, !.lg0 = bstate.lastGood]]
  /\ rt' = [rt EXCEPT !.stage = NoDir]
  /\ hist' = [hist EXCEPT ![g] = <<>>]
  /\ crashInfo' = NoCrash
  /\ Goto(g, "load")
  /\ UNCHANGED <<userCfg, userSsl, snapshot, nginxConf, proxy, lastGoodConf, reloadMu,
                 seq, timer, uncommitted, burst>>
  /\ UNCHANGED notMain

\* ------------------------------------------------------- app.reload
\* config.Load(configDir)
load(g) ==
  /\ pc[g] = "load"
  /\ IF userCfg = "bad"
       THEN /\ Fail(g, "prep")
       ELSE /\ loc' = [loc EXCEPT ![g].cfg = userCfg]
            /\ Log(g, "load")
            /\ Goto(g, "scan")
  /\ UNCHANGED <<diskVars, proxy, lastGoodConf, reloadMu, seq, timer,
                 crashInfo, uncommitted, burst>>
  /\ UNCHANGED notMain

\* ssl.ScanCertificatesWithReport(sslDir)
scan(g) ==
  /\ pc[g] = "scan"
  /\ \E ok \in BOOLEAN :
       IF ok
         THEN /\ loc' = [loc EXCEPT ![g].certMap = userSsl]
              /\ Log(g, "scan")
              /\ Goto(g, "stage")
         ELSE Fail(g, "prep")
  /\ UNCHANGED <<diskVars, proxy, lastGoodConf, reloadMu, seq, timer,
                 crashInfo, uncommitted, burst>>
  /\ UNCHANGED notMain

\* stageRuntimeCertificates: a fresh stage/<id>/certs holding copies of the
\* files the scan found; an error leaves what was copied so far.
StagedDir(certMap, ok) ==
  IF ok THEN [certs |-> certMap, conf |-> NoConf, tested |-> FALSE] ELSE PartialDir
stageRuntimeCertificates(g) ==
  /\ pc[g] = "stage"
  /\ \E ok \in BOOLEAN :
       /\ rt' = [rt EXCEPT !.stage = StagedDir(loc[g].certMap, ok)]
       /\ IF ok
            THEN /\ Log(g, "stage")
                 /\ Goto(g, "render")
                 /\ UNCHANGED loc
            ELSE Fail(g, "stage")
  /\ UNCHANGED <<userCfg, userSsl, bstate, snapshot, nginxConf, proxy,
                 lastGoodConf, reloadMu, seq, timer,
                 crashInfo, uncommitted, burst>>
  /\ UNCHANGED notMain

\* nginxConfig := nginx.GenerateConfig(effectiveCfg, activeCertMap)
render(g) ==
  /\ pc[g] = "render"
  /\ loc' = [loc EXCEPT ![g].nginxConfig = GenerateConfig(loc[g].cfg, activeCertMap(loc[g].certMap))]
  /\ Log(g, "render")
  /\ Goto(g, "write")
  /\ UNCHANGED <<diskVars, proxy, lastGoodConf, reloadMu, seq, timer,
                 crashInfo, uncommitted, burst>>
  /\ UNCHANGED notMain

\* writeRuntimeNginxConf: stage/<id>/nginx/nginx.conf
writeRuntimeNginxConf(g) ==
  /\ pc[g] = "write"
  /\ \E ok \in BOOLEAN :
       IF ok
         THEN /\ rt' = [rt EXCEPT !.stage.conf = loc[g].nginxConfig]
              /\ Log(g, "write")
              /\ Goto(g, "actOld")
              /\ UNCHANGED loc
         ELSE /\ Fail(g, "stage")
              /\ UNCHANGED rt
  /\ UNCHANGED <<userCfg, userSsl, bstate, snapshot, nginxConf, proxy,
                 lastGoodConf, reloadMu, seq, timer,
                 crashInfo, uncommitted, burst>>
  /\ UNCHANGED notMain

\* activateRuntimeSnapshot, first rename: RemoveAll(old); current/ -> old/
activateOld(g) ==
  /\ pc[g] = "actOld"
  /\ IF rt.current = NoDir
       THEN /\ rt' = [rt EXCEPT !.old = NoDir]
            /\ Goto(g, "actNew")
            /\ UNCHANGED <<loc, hist>>
       ELSE \E ok \in BOOLEAN :
              IF ok
                THEN /\ rt' = [rt EXCEPT !.old = rt.current, !.current = NoDir]
                     /\ Goto(g, "actNew")
                     /\ UNCHANGED <<loc, hist>>
                ELSE /\ rt' = [rt EXCEPT !.old = NoDir]
                     /\ Fail(g, "activate")
  /\ UNCHANGED <<userCfg, userSsl, bstate, snapshot, nginxConf, proxy,
                 lastGoodConf, reloadMu, seq, timer, crashInfo, uncommitted, burst>>
  /\ UNCHANGED notMain

\* os.Rename(stageDir, currentDir)
ActivatedStageKept == [rt EXCEPT !.current = rt.stage]
Activated == [rt EXCEPT !.current = rt.stage, !.stage = NoDir]
\* _ = os.Rename(oldDir, currentDir): the best-effort rollback, whose error is
\* dropped; without an old/ there is nothing to rename.
RollbackOutcomes == IF rt.old = NoDir THEN {TRUE} ELSE BOOLEAN
RolledBack(back) == IF back THEN [rt EXCEPT !.current = rt.old, !.old = NoDir] ELSE rt

\* activateRuntimeSnapshot, second rename: stage/<id>/ -> current/; on an
\* error (a missing stage, a failing rename) old/ is renamed back, best effort.
activateNew(g) ==
  /\ pc[g] = "actNew"
  /\ \E ok \in (IF rt.stage = NoDir THEN {FALSE} ELSE BOOLEAN) :
       IF ok
         THEN /\ rt' = Activated
              /\ Log(g, "activate")
              /\ Goto(g, "conf")
              /\ UNCHANGED loc
         ELSE /\ \E back \in RollbackOutcomes : rt' = RolledBack(back)
              /\ Fail(g, "activate")
  /\ UNCHANGED <<userCfg, userSsl, bstate, snapshot, nginxConf, proxy,
                 lastGoodConf, reloadMu, seq, timer,
                 crashInfo, uncommitted, burst>>
  /\ UNCHANGED notMain

\* What follows a reload() that returned nil: Start starts the proxy,
\* handleReload reloads it.
AfterReloadBodyCommit(g) == "commit"
AfterReloadBodyHealth(g) == "health"
AfterReloadBody(g) == IF g = Main THEN "start" ELSE "reload"

\* os.WriteFile(nginxConf, nginxConfig); reload returns nil.
writeNginxConf(g) ==
  /\ pc[g] = "conf"
  /\ nginxConf' = loc[g].nginxConfig
  /\ Goto(g, AfterReloadBody(g))
  /\ UNCHANGED <<userCfg, userSsl, bstate, snapshot, rt, proxy,
                 loc, lastGoodConf, reloadMu, seq, timer, histVars>>
  /\ UNCHANGED notMain

\* ------------------------------------------------- nginx.Manager
\* Start(): spawn the proxy in foreground on /etc/nginx/nginx.conf.
nginxStart ==
  /\ pc[Main] = "start"
  /\ \E ok \in BOOLEAN :
       IF ok
         THEN /\ proxy' = [up |-> TRUE, conf |-> nginxConf]
              /\ Log(Main, "start")
              /\ Goto(Main, "health")
              /\ UNCHANGED loc
         ELSE /\ Fail(Main, "start")
              /\ UNCHANGED proxy
  /\ UNCHANGED <<diskVars, lastGoodConf, reloadMu, seq, timer,
                 crashInfo, uncommitted, burst>>
  /\ UNCHANGED notMain

\* Reload(): `nginx -t`, then SIGHUP to the tracked process.  The proxy
\* re-reads /etc/nginx/nginx.conf on the signal.
ReloadAccepts(pass) == pass /\ proxy.up
ProxyAfterReload(pass) ==
  IF ReloadAccepts(pass) THEN [up |-> TRUE, conf |-> nginxConf] ELSE proxy

\* handleReload: a.nginxManager.Reload() of the new configuration
nginxReload(g) ==
  /\ pc[g] = "reload"
  /\ \E pass \in TestOutcomes :
       /\ proxy' = ProxyAfterReload(pass)
       /\ rt' = AfterTest(pass)
       /\ IF ReloadAccepts(pass)
            THEN /\ Log(g, "reload")
                 /\ Goto(g, "health")
                 /\ uncommitted' = nginxConf
                 /\ UNCHANGED loc
            ELSE /\ Fail(g, "reload")
                 /\ UNCHANGED uncommitted
  /\ UNCHANGED <<userCfg, userSsl, bstate, snapshot, nginxConf, lastGoodConf,
                 reloadMu, seq, timer, crashInfo, burst>>
  /\ UNCHANGED notMain

\* CheckHealth(): `nginx -t` once more.
CheckHealth(g) ==
  /\ pc[g] = "health"
  /\ \E pass \in TestOutcomes :
       /\ rt' = AfterTest(pass)
       /\ IF pass
            THEN /\ Log(g, "health")
                 /\ Goto(g, "commit")
                 /\ UNCHANGED loc
            ELSE Fail(g, "health")
  /\ UNCHANGED <<userCfg, userSsl, bstate, snapshot, nginxConf, proxy, lastGoodConf,
                 reloadMu, seq, timer, crashInfo, uncommitted, burst>>
  /\ UNCHANGED notMain

\* ------------------------------------- commit, abort, restore
\* backupManager.Commit(snapID); an id that is not in progress is an error,
\* which Start and handleReload log and pass over.
CommitAcceptsAny(id) == TRUE
CommitAccepts(id) == bstate.inProgress = id
CommitOk(g) == CommitAccepts(SnapID(g))
Commit(g) ==
  /\ pc[g] = "commit"
  /\ IF CommitOk(g)
       THEN /\ snapshot' = CommitSnapshot
            /\ bstate' = CommitState(SnapID(g))
            /\ Log(g, "commit")
            /\ uncommitted' = NoConf
       ELSE UNCHANGED <<snapshot, bstate, hist, uncommitted>>
  /\ Goto(g, "save")
  /\ UNCHANGED <<userCfg, userSsl, rt, nginxConf, proxy, loc,
                 lastGoodConf, reloadMu, seq, timer,
                 crashInfo, burst>>
  /\ UNCHANGED notMain

\* saveGoodConfiguration after a commit: a.lastGoodConf := nginx.conf
saveGoodConfiguration(g) ==
  /\ pc[g] = "save"
  /\ lastGoodConf' = nginxConf
  /\ Goto(g, IF g = Main THEN "watch" ELSE "ret")
  /\ UNCHANGED <<diskVars, proxy, loc, reloadMu, seq, timer, histVars>>
  /\ UNCHANGED notMain

\* backupManager.Abort(snapID): clear the marker, remove the snapshot directory.
\* Start then returns its error and main exits; handleReload goes on to restore.
Abort(g) ==
  /\ pc[g] = "abort"
  /\ bstate' = AbortState(SnapID(g))
  /\ Log(g, "abort")
  /\ Goto(g, IF g = Main THEN "fatal" ELSE "restore")
  /\ UNCHANGED <<userCfg, userSsl, snapshot, rt, nginxConf, proxy, loc,
                 lastGoodConf, reloadMu, seq, timer,
                 crashInfo, uncommitted, burst>>
  /\ UNCHANGED notMain

\* Where handleReload goes after restoreGoodConfiguration: a failed proxy
\* reload or health check reloads the proxy once more, a failed reload() returns.
AfterRestoreReload(g) == "reload2"
AfterRestoreReturn(g) == "ret"
AfterRestore(g) == IF loc[g].failAt \in {"reload", "health"} THEN "reload2" ELSE "ret"

\* RestoreLastGood needs a last-good snapshot.
NoLastGood == FALSE
HasLastGood == bstate.lastGood # 0

\* restoreGoodConfiguration: RestoreLastGood(), or without a last-good
\* snapshot the in-memory fallback.
restoreGoodConfiguration(g) ==
  /\ pc[g] = "restore"
  /\ IF HasLastGood
       THEN /\ Goto(g, "wipe")
            /\ UNCHANGED <<nginxConf, hist>>
       ELSE /\ nginxConf' = IF lastGoodConf = NoConf THEN nginxConf ELSE lastGoodConf
            /\ Log(g, "restore")
            /\ Goto(g, AfterRestore(g))
  /\ UNCHANGED <<userCfg, userSsl, bstate, snapshot, rt, proxy, loc,
                 lastGoodConf, reloadMu, seq, timer,
                 crashInfo, uncommitted, burst>>
  /\ UNCHANGED notMain

\* restoreGoodConfiguration after RestoreLastGood returned nil:
\* saveGoodConfiguration keeps the in-memory fallback in sync.
saveRestored(g) ==
  /\ pc[g] = "save2"
  /\ lastGoodConf' = nginxConf
  /\ Log(g, "restore")
  /\ Goto(g, AfterRestore(g))
  /\ UNCHANGED <<diskVars, proxy, loc, reloadMu, seq, timer,
                 crashInfo, uncommitted, burst>>
  /\ UNCHANGED notMain

\* handleReload: a.nginxManager.Reload() once more, after the restore.
nginxReloadAgain(g) ==
  /\ pc[g] = "reload2"
  /\ \E pass \in TestOutcomes :
       /\ proxy' = ProxyAfterReload(pass)
       /\ rt' = AfterTest(pass)
       /\ uncommitted' = IF ReloadAccepts(pass) THEN NoConf ELSE uncommitted
       /\ loc' = [loc EXCEPT ![g].recovered = IF ReloadAccepts(pass) THEN "yes" ELSE "no"]
  /\ Log(g, "reload")
  /\ Goto(g, "ret")
  /\ UNCHANGED <<userCfg, userSsl, bstate, snapshot, nginxConf, lastGoodConf,
                 reloadMu, seq, timer, crashInfo, burst>>
  /\ UNCHANGED notMain

\* handleReload returns: the deferred a.reloadMu.Unlock(); the goroutine ends.
Return(g) ==
  /\ pc[g] = "ret"
  /\ reloadMu' = Free
  /\ loc' = [loc EXCEPT ![g] = ZeroLoc]
  /\ hist' = [hist EXCEPT ![g] = <<>>]
  /\ Goto(g, "none")
  /\ UNCHANGED <<diskVars, proxy, lastGoodConf, seq, timer,
                 crashInfo, uncommitted, burst>>
  /\ UNCHANGED notMain

\* Start: setupWatchers(), then Start returns nil.
setupWatchers ==
  /\ pc[Main] = "watch"
  /\ loc' = [loc EXCEPT ![Main] = ZeroLoc]
  /\ hist' = [hist EXCEPT ![Main] = <<>>]
  /\ Goto(Main, "running")
  /\ UNCHANGED <<diskVars, proxy, lastGoodConf, reloadMu, seq, timer,
                 crashInfo, uncommitted, burst>>
  /\ UNCHANGED notMain

\* ---------------------------------------------- watchers and debounce
\* No timer pending and no callback between firing and the reload mutex.
Quiet == ~timer.armed /\ \A g \in Timers : pc[g] \notin {"cb", "lock"}

\* The burst a watcher event belongs to: an event joins the burst whose first
\* event is less than a window old; otherwise it opens a burst of its own if
\* the moment is quiet, and if not it is a straggler behind a burst whose
\* reload has not started yet (ok = FALSE: not a burst standing alone).
BurstAfterEvent ==
  IF burst.first # 0 /\ burst.elapsed < debounceWindow
    THEN burst
    ELSE IF Quiet
      THEN [ok |-> TRUE, first |-> seq + 1, elapsed |-> 0, reloads |-> 0]
      ELSE [burst EXCEPT !.ok = FALSE]

\* time.AfterFunc(debounceWindow, ...) after Stop() of the previous timer
ArmedTimerNow(s) == [armed |-> TRUE, seq |-> s, left |-> 0]
ArmedTimer(s) == [armed |-> TRUE, seq |-> s, left |-> debounceWindow]

\* A watcher goroutine receives an event and calls scheduleReload().
scheduleReload ==
  /\ pc[Main] = "running"
  /\ seq < MaxSeq
  /\ seq' = seq + 1
  /\ timer' = ArmedTimer(seq + 1)
  /\ burst' = BurstAfterEvent
  /\ UNCHANGED <<diskVars, proxy, pc, loc, lastGoodConf, reloadMu,
                 hist, crashInfo, uncommitted>>
  /\ UNCHANGED notMain

\* Time passes.
Tick ==
  /\ (timer.armed /\ timer.left > 0) \/ (burst.first # 0 /\ burst.elapsed < debounceWindow)
  /\ timer' = IF timer.armed /\ timer.left > TickMs
                THEN [timer EXCEPT !.left = @ - TickMs]
                ELSE [timer EXCEPT !.left = 0]
  /\ burst' = IF burst.first = 0 THEN burst
                ELSE IF burst.elapsed + TickMs < debounceWindow
                  THEN [burst EXCEPT !.elapsed = @ + TickMs]
                  ELSE [burst EXCEPT !.elapsed = debounceWindow]
  /\ UNCHANGED <<diskVars, proxy, pc, loc, lastGoodConf, reloadMu, seq,
                 hist, crashInfo, uncommitted>>
  /\ UNCHANGED notMain

\* The timer expires and starts its callback in a goroutine of its own.
TimerDue == timer.armed /\ timer.left = 0
TimerFire ==
  /\ TimerDue
  /\ Goto(timer.seq, "cb")
  /\ timer' = NoTimer
  /\ UNCHANGED <<diskVars, proxy, loc, lastGoodConf, reloadMu, seq, histVars>>
  /\ UNCHANGED notMain

\* The callback's check under reloadDebounceMu: a stale trigger returns.
StaleNever(g) == FALSE
StaleInverted(g) == g = seq
Stale(g) == g # seq
Callback(g) ==
  /\ pc[g] = "cb"
  /\ Goto(g, IF Stale(g) THEN "none" ELSE "lock")
  /\ UNCHANGED <<diskVars, proxy, loc, lastGoodConf, reloadMu, seq, timer, histVars>>
  /\ UNCHANGED notMain

\* handleReload: a.reloadMu.Lock()
CanLockAlways(g) == TRUE
CanLock(g) == reloadMu = Free
Lock(g) ==
  /\ pc[g] = "lock"
  /\ CanLock(g)
  /\ reloadMu' = g
  /\ Goto(g, "begin")
  /\ burst' = IF g >= burst.first THEN [burst EXCEPT !.reloads = @ + 1] ELSE burst
  /\ UNCHANGED <<diskVars, proxy, loc, lastGoodConf, seq, timer,
                 hist, crashInfo, uncommitted>>
  /\ UNCHANGED notMain

\* ----------------------------------------------------- environment
\* Positions after Begin() and before Commit() or Abort() have run.
InSnapshot == {"load", "scan", "stage", "render", "write", "actOld", "actNew",
               "conf", "start", "reload", "health", "commit", "abort"}
\* Positions of crash recovery, where the marker of the previous run stands.
InRecovery == {"recover", "wipe", "wipe2", "copy", "copy2", "rconf", "clear"}

\* The process exits: memory, the timer and the goroutines are gone, and the
\* proxy, its child, with them.  The disk stays as it is.
ProcessExit ==
  /\ pc' = [g \in Procs |-> IF g = Main THEN "down" ELSE "none"]
  /\ loc' = [g \in Procs |-> ZeroLoc]
  /\ lastGoodConf' = NoConf
  /\ reloadMu' = Free
  /\ seq' = 0
  /\ timer' = NoTimer
  /\ proxy' = [up |-> FALSE, conf |-> NoConf]
  /\ hist' = [g \in Procs |-> <<>>]
  /\ uncommitted' = NoConf
  /\ burst' = NoBurst
  /\ crashInfo' =
       [mid |-> /\ bstate.lastGood # 0
                /\ \/ \E g \in Procs : pc[g] \in InSnapshot
                   \/ crashInfo.mid /\ pc[Main] \in InRecovery,
        lastGood |-> bstate.lastGood,
        inProgress |-> bstate.inProgress,
        dirty |-> rt.current # snapshot.runtime.current \/ nginxConf # snapshot.nginx]
  /\ UNCHANGED diskVars
  /\ UNCHANGED notMain

\* The process is killed at an arbitrary point.
Crash ==
  /\ pc[Main] \notin {"down", "fatal"}
  /\ ProcessExit

\* Start returned an error: main logs it and exits.
Fatal ==
  /\ pc[Main] = "fatal"
  /\ ProcessExit

\* The operator edits configs/ or ssl/.  An edit shows at the program's next
\* read of the directory (configs/: load; ssl/: scan), so edits are taken at
\* those points.
ReadsConfigs == \E g \in Procs : pc[g] = "load"
ReadsSsl == \E g \in Procs : pc[g] = "scan"
UserEdit ==
  /\ \/ ReadsConfigs /\ \E c \in UserCfgs \ {userCfg} : userCfg' = c /\ UNCHANGED userSsl
     \/ ReadsSsl /\ \E k \in UserSsls \ {userSsl} : userSsl' = k /\ UNCHANGED userCfg
  /\ UNCHANGED <<bstate, snapshot, rt, nginxConf, proxy, memVars, histVars>>
  /\ UNCHANGED notMain

\* ------------------------------------------------------ static sites
\* A mapping key of proxy.yaml is a string, here the sequence of its characters.
Digits == <<"0", "1", "2", "3", "4", "5", "6", "7", "8", "9">>
DigitVal(c) == (CHOOSE i \in 1..Len(Digits) : Digits[i] = c) - 1

\* strings.TrimSuffix(key, ":")
TrimSuffix(k) == IF Len(k) > 0 /\ k[Len(k)] = ":" THEN SubSeq(k, 1, Len(k) - 1) ELSE k
\* strings.TrimSpace
RECURSIVE TrimLeft(_)
TrimLeft(k) == IF Len(k) > 0 /\ k[1] = " " THEN TrimLeft(Tail(k)) ELSE k
RECURSIVE TrimRight(_)
TrimRight(k) ==
  IF Len(k) > 0 /\ k[Len(k)] = " " THEN TrimRight(SubSeq(k, 1, Len(k) - 1)) ELSE k
TrimSpace(k) == TrimRight(TrimLeft(k))
\* strings.HasPrefix(k, ".") || strings.HasPrefix(k, "/")
HasDirPrefix(k) == Len(k) > 0 /\ k[1] \in {".", "/"}
\* strings.LastIndex(k, ":"), counted from 1; 0 when there is none
LastIndex(k) ==
  IF \E i \in 1..Len(k) : k[i] = ":"
    THEN CHOOSE i \in 1..Len(k) : k[i] = ":" /\ \A j \in (i + 1)..Len(k) : k[j] # ":"
    ELSE 0
isNumeric(str) ==
  Len(str) > 0 /\ \A i \in 1..Len(str) : \E d \in 1..Len(Digits) : Digits[d] = str[i]
\* strconv.Atoi of a string of digits
RECURSIVE Atoi(_)
Atoi(str) ==
  IF Len(str) = 0 THEN 0
    ELSE 10 * Atoi(SubSeq(str, 1, Len(str) - 1)) + DigitVal(str[Len(str)])
\* strconv.Itoa
RECURSIVE Itoa(_)
Itoa(n) == IF n < 10 THEN <<Digits[n + 1]>> ELSE Itoa(n \div 10) \o <<Digits[(n % 10) + 1]>>

maxPort == 65535
autoPortBase == 10000

\* config.ParseStaticSiteKey: (spec, ok, err)
NotStatic == [dir |-> <<>>, port |-> 0, hasPort |-> FALSE, ok |-> FALSE, err |-> FALSE]
ParsePort(k, idx) ==
  LET p == Atoi(SubSeq(k, idx + 1, Len(k)))
      dir == TrimSpace(SubSeq(k, 1, idx - 1))
  IN IF p <= 0 \/ p > maxPort \/ dir = <<>>
       THEN [dir |-> <<>>, port |-> 0, hasPort |-> FALSE, ok |-> TRUE, err |-> TRUE]
       ELSE [dir |-> dir, port |-> p, hasPort |-> TRUE, ok |-> TRUE, err |-> FALSE]
ParseStaticSiteKey(key) ==
  LET k == TrimSpace(TrimSuffix(key))
      idx == LastIndex(k)
  IN IF k = <<>> \/ ~HasDirPrefix(k)
       THEN NotStatic
       ELSE IF idx > 1 /\ idx < Len(k) /\ isNumeric(SubSeq(k, idx + 1, Len(k)))
         THEN ParsePort(k, idx)
         ELSE [dir |-> k, port |-> 0, hasPort |-> FALSE, ok |-> TRUE, err |-> FALSE]

\* The mappings the operator writes into proxy.yaml: a directory with an
\* automatic port, directories with the explicit port 8, a directory whose
\* port 0 does not parse, and the numeric upstream keys 8 and 10000.
UserMappings ==
  { [key |-> <<".", "/", "a">>, domains |-> "a.test"],
    [key |-> <<".", "/", "a", ":", "8">>, domains |-> "a8.test"],
    [key |-> <<"/", "b">>, domains |-> "b.test"],
    [key |-> <<"/", "b", ":", "8">>, domains |-> "b8.test"],
    [key |-> <<"/", "b", ":", "0">>, domains |-> "b0.test"],
    [key |-> <<"8">>, domains |-> "up8.test"],
    [key |-> <<"1", "0", "0", "0", "0">>, domains |-> "up10000.test"] }
\* cfg.Ports as config.Load returns it: never empty.
Tables == {t \in SUBSET UserMappings : Cardinality(t) \in 1..MaxKeys}

\* filepath.Clean(strings.TrimSpace(a)) == filepath.Clean(strings.TrimSpace(b));
\* the directories of UserMappings are clean paths.
sameDir(a, b) == TrimSpace(a) = TrimSpace(b)

BoundPorts == {srv.port : srv \in running}

\* prepareStaticSitesForReload up to the loop that binds: desiredSites, keep,
\* reservedPorts; without a static site, the fast path.
DesiredSites(ports) ==
  { [key |-> m.key, dir |-> ParseStaticSiteKey(m.key).dir,
     hasPort |-> ParseStaticSiteKey(m.key).hasPort,
     port |-> ParseStaticSiteKey(m.key).port, domains |-> m.domains] :
    m \in {n \in ports : ParseStaticSiteKey(n.key).ok /\ ~ParseStaticSiteKey(n.key).err} }
Keep(desired) ==
  { cur \in staticSites :
      \E want \in desired : /\ cur.key = want.key
                            /\ sameDir(cur.dir, want.dir)
                            /\ want.hasPort => cur.port = want.port }
NumericKeys(ports) ==
  { TrimSpace(TrimSuffix(m.key)) : 
    m \in {n \in ports : LET ks == TrimSpace(TrimSuffix(n.key))
                         IN ks # <<>> /\ ~HasDirPrefix(ks) /\ isNumeric(ks)} }
ReservedPorts(ports, desired, keep) ==
  {srv.port : srv \in keep}
    \cup {want.port : want \in {w \in desired : w.hasPort}}
    \cup {Atoi(ks) : ks \in NumericKeys(ports)}

\* handleReload has loaded the configuration; reload() prepares the static sites.
prepareStaticSitesForReload ==
  /\ spc = "idle"
  /\ \E ports \in Tables :
       LET desired == DesiredSites(ports)
           keep == Keep(desired)
       IN /\ cfgPorts' = ports
          /\ IF desired = {}
               THEN /\ prep' = [NoPrep EXCEPT !.effective = ports, !.fast = TRUE]
                    /\ spc' = "body"
               ELSE /\ prep' = [NoPrep EXCEPT
                                  !.desiredSites = desired,
                                  !.keep = keep,
                                  !.reservedPorts = ReservedPorts(ports, desired, keep),
                                  !.todo = {w.key : w \in desired} \ {srv.key : srv \in keep}]
                    /\ spc' = "bind"
  /\ before' = running
  /\ outcome' = "-"
  /\ UNCHANGED <<staticSites, running, notStatic>>

\* The first port from 10000 that is neither reserved nor refused by net.Listen.
RECURSIVE FirstFreePort(_)
FirstFreePort(p) ==
  IF p > maxPort \/ p >= autoPortBase + MaxAuto THEN 0
    ELSE IF p \notin prep.reservedPorts /\ p \notin BoundPorts THEN p
    ELSE FirstFreePort(p + 1)

\* The port of a listener for want, 0 when none is bound: the explicit port
\* unless reservedPorts holds it or net.Listen refuses it, or the first free
\* port from 10000.
ChosenPort(want) ==
  IF want.hasPort
    THEN IF want.port \in prep.reservedPorts \/ want.port \in BoundPorts
           THEN 0 ELSE want.port
    ELSE FirstFreePort(autoPortBase)

\* One iteration of the loop over desiredSites (Go iterates a map in any
\* order): os.Stat of the directory, the listener, the file server.
bindSite ==
  /\ spc = "bind"
  /\ \E want \in {w \in prep.desiredSites : w.key \in prep.todo} :
     \E isDir \in BOOLEAN :
       LET port == ChosenPort(want)
           site == [key |-> want.key, dir |-> want.dir, port |-> port]
       IN IF isDir /\ port # 0
            THEN /\ prep' = [prep EXCEPT !.todo = @ \ {want.key},
                                         !.dirs = @ \cup {want.key},
                                         !.reservedPorts = @ \cup {port},
                                         !.pendingAdds = @ \cup {site}]
                 /\ running' = running \cup {site}
            ELSE /\ prep' = [prep EXCEPT !.todo = @ \ {want.key},
                                         !.dirs = IF isDir THEN @ \cup {want.key} ELSE @]
                 /\ UNCHANGED running
  /\ UNCHANGED <<cfgPorts, staticSites, spc, before, outcome, notStatic>>

\* The effective cfg.Ports: the keys that are no desired site, copied, and for
\* each desired site that is kept or bound its port as the key, unless the
\* table holds that key already.
Effective ==
  LET copied == {m \in cfgPorts : \A w \in prep.desiredSites : w.key # m.key}
      served == prep.keep \cup prep.pendingAdds
  IN copied \cup
     { [key |-> Itoa(srv.port), domains |-> w.domains] :
       <<srv, w>> \in {x \in served \X prep.desiredSites :
                         /\ x[1].key = x[2].key
                         /\ \A m \in copied : m.key # Itoa(x[1].port)} }

\* prepareStaticSitesForReload returns &effective and finalize.
buildEffective ==
  /\ spc = "bind"
  /\ prep.todo = {}
  /\ prep' = [prep EXCEPT !.effective = Effective]
  /\ spc' = "body"
  /\ UNCHANGED <<cfgPorts, staticSites, running, before, outcome, notStatic>>

\* finalize(success), the closure prepareStaticSitesForReload returns; on the
\* fast path it is func(bool) {}.
RunningAfterFinalize(success) ==
  IF prep.fast THEN running
    ELSE IF ~success THEN running \ prep.pendingAdds
    ELSE running \ {cur \in staticSites : \A srv \in prep.keep : srv.key # cur.key}
StaticSitesAfterFinalize(success) ==
  IF prep.fast \/ ~success THEN staticSites ELSE prep.keep \cup prep.pendingAdds

\* The rest of reload(): scan, stage, render, write, activate, write the proxy
\* config.  When reload() returns, its deferred finalizeStatic(success) runs;
\* after an error handleReload aborts, restores and returns.
reloadBody ==
  /\ spc = "body"
  /\ \E success \in BOOLEAN :
       /\ running' = RunningAfterFinalize(success)
       /\ staticSites' = StaticSitesAfterFinalize(success)
       /\ spc' = IF success THEN "proxy" ELSE "done"
       /\ outcome' = IF success THEN outcome ELSE "failed"
  /\ UNCHANGED <<cfgPorts, prep, before, notStatic>>

\* handleReload after reload() returned nil: proxy reload and health check;
\* either may fail, and handleReload then rolls back and returns.
proxyReloadAndHealth ==
  /\ spc = "proxy"
  /\ \E ok \in BOOLEAN : outcome' = IF ok THEN "ok" ELSE "failed"
  /\ spc' = "done"
  /\ UNCHANGED <<cfgPorts, staticSites, running, prep, before, notStatic>>

\* handleReload returns.
reloadReturn ==
  /\ spc = "done"
  /\ spc' = "idle"
  /\ prep' = NoPrep
  /\ before' = {}
  /\ outcome' = "-"
  /\ UNCHANGED <<cfgPorts, staticSites, running, notStatic>>

NextStatic ==
  \/ prepareStaticSitesForReload
  \/ bindSite
  \/ buildEffective
  \/ reloadBody
  \/ proxyReloadAndHealth
  \/ reloadReturn

\* The static-site steps of successive hot reloads, the rest of the
\* supervisor standing still.
InitStaticOnly == Init /\ userCfg = "A" /\ userSsl = "k1"
SpecStatic == InitStaticOnly /\ [][NextStatic]_vars

\* ------------------------------------------------------- path watcher

Parent(p) == SubSeq(p, 1, Len(p) - 1)

\* strings.Contains(filepath.ToSlash(p), "/.sslly-backups/") or
\* "/.sslly-runtime/": the name is a component with a separator on both
\* sides, so neither the first nor the last component of the path.
InternalName(c) == c \in {".sslly-backups", ".sslly-runtime"}
BackupsOnly(c) == c = ".sslly-backups"
ContainsComponent(p, Match(_)) == \E i \in 2..(Len(p) - 1) : Match(p[i])
isInternalConfigPathBackupsOnly(p) == ContainsComponent(p, BackupsOnly)
isInternalConfigPath(p) == ContainsComponent(p, InternalName)

\* A path strictly below root.
UnderSubtree(p, root) == Len(p) > Len(root) /\ SubSeq(p, 1, Len(root)) = root

\* addRecursive: filepath.Walk registers every directory it visits.
addRecursive(dir) == {d \in fsDirs : d = dir \/ UnderSubtree(d, dir)}

\* The model follows one of the two watchers of setupWatchers; the
\* directory it was made for tells which.
OfSsl == sslDir \in watches

FsClosed == stopPc \in {"wait", "close", "stopped"}
ChannelsClosed == stopPc = "stopped"

\* What happens under configs/ while the watcher runs.  The operator edits
\* proxy.yaml and works in a subdirectory made after the watcher started.
Ops == {"CREATE", "WRITE", "REMOVE"}
UserOps ==
  {Event(configDir \o <<"proxy.yaml">>, "WRITE"), Event(configDir \o <<"cors.yaml">>, "REMOVE")}
  \cup {Event(newSubdir \o <<"a.yaml">>, op) : op \in Ops}
  \cup {Event(sslDir \o <<"a.pem">>, op) : op \in Ops}

\* What a reload writes under the two internal subtrees: the state file
\* moved into place, a new snapshot directory and a file copied into it,
\* the runtime directory swapped in and a file restored into it.
InternalWrites ==
  { Event(statePath, "CREATE"),
    Event(snapshotsDir \o <<"id">>, "CREATE"),
    Event(snapshotsDir \o <<"id", "configs", "proxy.yaml">>, "WRITE"),
    Event(runtimeCurrentDir, "CREATE"),
    Event(runtimeCurrentDir \o <<"nginx.conf">>, "WRITE") }

\* inotify reports a change in a directory that has a watch, and nothing
\* for a directory without one.
Notify(e) ==
  IF Parent(e.name) \in watches /\ ~FsClosed
    THEN /\ Len(osQueue) < MaxQueue
         /\ osQueue' = Append(osQueue, e)
         /\ UNCHANGED missed
    ELSE /\ osQueue' = osQueue
         /\ missed' = IF /\ Parent(e.name) = newSubdir
                           /\ Parent(newSubdir) \in watches
                           /\ stopPc = "running"
                        THEN e
                        ELSE missed

\* watcher.New(configDir) and the goroutine setupWatchers starts for it.
New ==
  /\ stopPc = "none"
  /\ \E dir \in {configDir, sslDir} : watches' = addRecursive(dir)
  /\ fwd' = [pc |-> "select", item |-> NoItem]
  /\ consumer' = "select"
  /\ stopPc' = "running"
  /\ UNCHANGED <<fsDirs, osQueue, wEvents, wErrors, handled, missed, notWatch>>

operatorMkdir ==
  /\ stopPc = "running"
  /\ newSubdir \notin fsDirs
  /\ fsDirs' = fsDirs \cup {newSubdir}
  /\ Notify(Event(newSubdir, "CREATE"))
  /\ UNCHANGED <<watches, wEvents, wErrors, fwd, consumer, stopPc, handled, notWatch>>

operatorWrite ==
  /\ stopPc = "running"
  /\ \E e \in UserOps :
       /\ Parent(e.name) \in fsDirs
       /\ Notify(e)
  /\ UNCHANGED <<fsDirs, watches, wEvents, wErrors, fwd, consumer, stopPc, handled, notWatch>>

reloadWrite ==
  /\ stopPc = "running"
  /\ \E e \in InternalWrites : Notify(e)
  /\ UNCHANGED <<fsDirs, watches, wEvents, wErrors, fwd, consumer, stopPc, handled, notWatch>>

\* fsnotify reports an error of its own (the kernel queue overflowed).
osError ==
  /\ stopPc = "running"
  /\ Len(osQueue) < MaxQueue
  /\ osQueue' = Append(osQueue, ErrItem)
  /\ UNCHANGED <<fsDirs, watches, wEvents, wErrors, fwd, consumer, stopPc, handled, missed, notWatch>>

\* The forwarder: select on watcher.Events and watcher.Errors.
fwdRecv ==
  /\ fwd.pc = "select"
  /\ ~FsClosed
  /\ osQueue # <<>>
  /\ fwd' = [pc |-> "send", item |-> Head(osQueue)]
  /\ osQueue' = Tail(osQueue)
  /\ UNCHANGED <<fsDirs, watches, wEvents, wErrors, consumer, stopPc, handled, missed, notWatch>>

\* w.Events <- event, w.Errors <- err: blocks while the buffer is full,
\* panics when the channel is closed.
fwdSend ==
  /\ fwd.pc = "send"
  /\ IF ChannelsClosed
       THEN /\ fwd' = [fwd EXCEPT !.pc = "panic"]
            /\ UNCHANGED <<wEvents, wErrors>>
       ELSE /\ IF fwd.item.kind = "event"
                 THEN /\ Len(wEvents) < EventsCap
                      /\ wEvents' = Append(wEvents, fwd.item)
                      /\ UNCHANGED wErrors
                 ELSE /\ Len(wErrors) < ErrorsCap
                      /\ wErrors' = Append(wErrors, fwd.item)
                      /\ UNCHANGED wEvents
            /\ fwd' = [pc |-> "select", item |-> NoItem]
  /\ UNCHANGED <<fsDirs, watches, osQueue, consumer, stopPc, handled, missed, notWatch>>

\* Either channel of fsnotify is closed: return, and the deferred
\* close(w.done) runs.
fwdExit ==
  /\ fwd.pc = "select"
  /\ FsClosed
  /\ fwd' = [fwd EXCEPT !.pc = "exited"]
  /\ UNCHANGED <<fsDirs, watches, osQueue, wEvents, wErrors, consumer, stopPc, handled, missed, notWatch>>

\* The two consumers of setupWatchers: the one of the configuration
\* watcher passes over internal paths and acts on Write and Create, the
\* one of the TLS watcher acts on Write, Create and Remove.
Passes(e) == OfSsl \/ ~isInternalConfigPath(e.name)
SchedulesWriteCreate(e) == Passes(e) /\ e.op \in {"WRITE", "CREATE"}
Schedules(e) ==
  /\ Passes(e)
  /\ IF OfSsl THEN e.op \in {"WRITE", "CREATE", "REMOVE"}
              ELSE e.op \in {"WRITE", "CREATE"}

consumeEvent ==
  /\ consumer = "select"
  /\ wEvents # <<>>
  /\ LET e == Head(wEvents) IN
       handled' = [name |-> e.name, op |-> e.op,
                   did |-> IF ~Passes(e) THEN "continue"
                           ELSE IF Schedules(e) THEN "scheduleReload"
                           ELSE "nothing"]
  /\ wEvents' = Tail(wEvents)
  /\ UNCHANGED <<fsDirs, watches, osQueue, wErrors, fwd, consumer, stopPc, missed, notWatch>>

consumeError ==
  /\ consumer = "select"
  /\ wErrors # <<>>
  /\ wErrors' = Tail(wErrors)
  /\ UNCHANGED <<fsDirs, watches, osQueue, wEvents, fwd, consumer, stopPc, handled, missed, notWatch>>

\* A receive from a closed and drained channel yields !ok: return.
consumerExit ==
  /\ consumer = "select"
  /\ ChannelsClosed
  /\ wEvents = <<>> \/ wErrors = <<>>
  /\ consumer' = "exited"
  /\ UNCHANGED <<fsDirs, watches, osQueue, wEvents, wErrors, fwd, stopPc, handled, missed, notWatch>>

\* Stop: w.watcher.Close() closes fsnotify's channels; what it still held
\* is dropped.
stopClose ==
  /\ stopPc = "running"
  /\ stopPc' = "wait"
  /\ osQueue' = <<>>
  /\ UNCHANGED <<fsDirs, watches, wEvents, wErrors, fwd, consumer, handled, missed, notWatch>>

\* <-w.done
DoneImmediately == TRUE
Done == fwd.pc = "exited"

stopWait ==
  /\ stopPc = "wait"
  /\ Done
  /\ stopPc' = "close"
  /\ UNCHANGED <<fsDirs, watches, osQueue, wEvents, wErrors, fwd, consumer, handled, missed, notWatch>>

\* close(w.Events); close(w.Errors); return
stopCloseChannels ==
  /\ stopPc = "close"
  /\ stopPc' = "stopped"
  /\ UNCHANGED <<fsDirs, watches, osQueue, wEvents, wErrors, fwd, consumer, handled, missed, notWatch>>

NextWatch ==
  \/ New
  \/ operatorMkdir
  \/ operatorWrite
  \/ reloadWrite
  \/ osError
  \/ fwdRecv
  \/ fwdSend
  \/ fwdExit
  \/ consumeEvent
  \/ consumeError
  \/ consumerExit
  \/ stopClose
  \/ stopWait
  \/ stopCloseChannels

\* The watcher of configs/ from setupWatchers to Stop, the rest of the
\* supervisor standing still.
InitWatchOnly == Init /\ userCfg = "A" /\ userSsl = "k1"
SpecWatch == InitWatchOnly /\ [][NextWatch]_vars

\* The forwarder, the consumer and Stop are goroutines the Go scheduler
\* runs whenever they can take a step.
WatchFairness ==
  /\ WF_vars(fwdSend)
  /\ WF_vars(fwdExit)
  /\ WF_vars(consumeEvent)
  /\ WF_vars(consumeError)
  /\ WF_vars(stopWait)
  /\ WF_vars(stopCloseChannels)
SpecWatchFair == SpecWatch /\ WatchFairness

\* ------------------------------------------- functions taken alone
\* File names and host names are sequences of characters.
Upper == <<"A", "B", "E", "M", "P">>
Lower == <<"a", "b", "e", "m", "p">>
LowerLetters == {"a", "b", "c", "e", "k", "m", "o", "p", "r", "t", "x", "y"}
\* strings.ToLower
ToLowerChar(c) ==
  IF \E i \in 1..Len(Upper) : Upper[i] = c
    THEN Lower[CHOOSE i \in 1..Len(Upper) : Upper[i] = c]
    ELSE c
ToLower(str) == [i \in 1..Len(str) |-> ToLowerChar(str[i])]

\* filepath.Ext: the suffix from the last dot of the last element on.
DotsOfLast(path) ==
  {i \in 1..Len(path) : path[i] = "." /\ \A j \in i..Len(path) : path[j] # "/"}
Ext(path) ==
  IF DotsOfLast(path) = {} THEN <<>>
  ELSE SubSeq(path, CHOOSE i \in DotsOfLast(path) : \A j \in DotsOfLast(path) : j <= i,
              Len(path))

\* sanitizeDomainForFileName
SafeChar(c) ==
  IF c \in LowerLetters \/ c \in {"0", "1", "2", "3", "4", "5", "6", "7", "8", "9"}
     \/ c \in {".", "-", "_"}
    THEN c ELSE "_"
sanitizeDomainForFileName(domain) ==
  LET d == ToLower(TrimSpace(domain)) IN
  IF d = <<>> THEN <<"u", "n", "k", "n", "o", "w", "n">>
  ELSE [i \in 1..Len(d) |-> SafeChar(d[i])]

certExt(certPath) ==
  IF ToLower(Ext(certPath)) = <<>> THEN <<".", "p", "e", "m">> ELSE ToLower(Ext(certPath))
keyExt(keyPath) ==
  IF ToLower(Ext(keyPath)) = <<>> THEN <<".", "k", "e", "y">> ELSE ToLower(Ext(keyPath))
stageCertName(domain, certPath) ==
  sanitizeDomainForFileName(domain) \o <<".", "c", "e", "r", "t">> \o certExt(certPath)
stageKeyNameAsCert(domain, keyPath) ==
  sanitizeDomainForFileName(domain) \o <<".", "c", "e", "r", "t">> \o keyExt(keyPath)
stageKeyName(domain, keyPath) ==
  sanitizeDomainForFileName(domain) \o <<".", "k", "e", "y">> \o keyExt(keyPath)

\* The certificates a scan may hand over for a base host: the paths of the
\* certificate and of the key, in ssl/.
BaseDomains == {<<"a", ".", "b">>, <<"A", ".", "b">>, <<" ">>, <<"a", "/", "b">>}
SourcePaths ==
  { <<"x", ".", "p", "e", "m">>,
    <<"y", "/", "x", ".", "p", "e", "m">>,
    <<"x", ".", "P", "E", "M">>,
    <<"x", ".", "c", "r", "t">>,
    <<"x", ".", "k", "e", "y">>,
    <<"x", ".", "b", "/", "x">>,
    <<"x", ".", "c", "e", "r", "t", ".", "k", "e", "y">>,
    <<"x">> }

\* One base host of stageRuntimeCertificates: the names of the two files in
\* stage/<id>/certs, the same as in current/certs after activation.
stageOne ==
  \E d \in BaseDomains, c \in SourcePaths, k \in SourcePaths :
    /\ call' = [fn |-> "stageRuntimeCertificates",
                domain |-> d, certPath |-> c, keyPath |-> k,
                stageCertPath |-> <<"c", "e", "r", "t", "s", "/">> \o stageCertName(d, c),
                stageKeyPath |-> <<"c", "e", "r", "t", "s", "/">> \o stageKeyName(d, k)]
    /\ UNCHANGED notCall

NextCall ==
  \/ stageOne

\* The functions of the pipeline called one after another on arguments of
\* every shape, the rest of the supervisor standing still.
InitCallOnly == Init /\ userCfg = "A" /\ userSsl = "k1"
SpecCall == InitCallOnly /\ [][NextCall]_vars

\* -------------------------------------- backup.Manager called directly
\* Begin, Abort and Commit in every order and with every id, as the tests
\* of the package call them, between reloads that leave a runtime cache
\* and a proxy config behind.  A call is recorded with the state file it
\* found.
mgrWrite ==
  \E k \in UserSsls :
    /\ rt' = [rt EXCEPT !.current = StagedDir(k, TRUE)]
    /\ nginxConf' = GenerateConfig("A", activeCertMap(k))
    /\ call' = [fn |-> "-", id |-> 0, err |-> FALSE, before |-> bstate]
    /\ UNCHANGED <<userCfg, userSsl, bstate, snapshot, proxy, memVars, histVars,
                   staticVars, watchVars, cfgDir, inHand>>

\* MaybeRestoreAfterCrash as one call; err tells that nothing was restored.
mgrMaybeRestore ==
  /\ IF bstate.inProgress = 0
       THEN UNCHANGED <<bstate, rt, nginxConf>>
       ELSE IF bstate.lastGood = 0
         THEN bstate' = MarkerCleared /\ UNCHANGED <<rt, nginxConf>>
         ELSE /\ rt' = RestoredRuntime
              /\ nginxConf' = RestoredConf
              /\ bstate' = MarkerCleared
  /\ call' = [fn |-> "MaybeRestoreAfterCrash", id |-> 0,
              err |-> (bstate.inProgress = 0 \/ bstate.lastGood = 0), before |-> bstate]
  /\ UNCHANGED <<userCfg, userSsl, snapshot, proxy, memVars, histVars,
                 staticVars, watchVars, cfgDir, inHand>>

mgrBegin ==
  /\ FreshIds # {}
  /\ bstate' = BeginState(NewId)
  /\ call' = [fn |-> "Begin", id |-> NewId, err |-> FALSE, before |-> bstate]
  /\ UNCHANGED <<userCfg, userSsl, snapshot, rt, nginxConf, proxy, memVars, histVars,
                 staticVars, watchVars, cfgDir, inHand>>

mgrAbort ==
  \E id \in Ids :
    /\ bstate' = AbortState(id)
    /\ call' = [fn |-> "Abort", id |-> id, err |-> FALSE, before |-> bstate]
    /\ UNCHANGED <<userCfg, userSsl, snapshot, rt, nginxConf, proxy, memVars, histVars,
                   staticVars, watchVars, cfgDir, inHand>>

\* Commit: the four copies may fail (copied is FALSE), and then the state
\* file is not written.
mgrCommit ==
  \E id \in Ids, copied \in BOOLEAN :
    /\ IF CommitAccepts(id) /\ copied
         THEN /\ snapshot' = CommitSnapshot
              /\ bstate' = CommitState(id)
         ELSE UNCHANGED <<snapshot, bstate>>
    /\ call' = [fn |-> "Commit", id |-> id, err |-> ~(CommitAccepts(id) /\ copied),
                before |-> bstate]
    /\ UNCHANGED <<userCfg, userSsl, rt, nginxConf, proxy, memVars, histVars,
                   staticVars, watchVars, cfgDir, inHand>>

NextManager ==
  \/ mgrWrite
  \/ mgrMaybeRestore
  \/ mgrBegin
  \/ mgrAbort
  \/ mgrCommit

InitManagerOnly == Init /\ userCfg = "A" /\ userSsl = "k1"
SpecManager == InitManagerOnly /\ [][NextManager]_vars

\* ------------------------------------------------- config.Prepare
\* The functions of the loader take the files of configs/ and give back
\* the files they leave and whether they returned an error.
Done2(files) == [files |-> files, err |-> FALSE]
Failed(files) == [files |-> files, err |-> TRUE]
fileExists(files, f) == files[f] # "-"

\* ensureFileFromExample; ex tells whether the example file is there.
ensureFileOverwrites(files, f, ex) == Done2([files EXCEPT ![f] = "example"])
ensureFileFromExample(files, f, ex) ==
  IF fileExists(files, f) THEN Done2(files)
  ELSE IF ex THEN Done2([files EXCEPT ![f] = "example"])
  ELSE IF f = proxyConfigFile THEN Failed(files)
  ELSE Done2([files EXCEPT ![f] = "empty"])

ensureSplitConfigFiles(files, ex) ==
  LET p == ensureFileFromExample(files, proxyConfigFile, ex)
      c == ensureFileFromExample(p.files, corsConfigFile, ex)
      l == ensureFileFromExample(c.files, logsConfigFile, ex)
  IN IF p.err THEN p ELSE IF c.err THEN c ELSE l

\* The first legacy file there is, config.yaml before config.yml.
legacyPath(files) ==
  IF fileExists(files, legacyConfigYAML) THEN legacyConfigYAML
  ELSE IF fileExists(files, legacyConfigYML) THEN legacyConfigYML
  ELSE "-"

backupPath(files, legacy) ==
  LET yaml == legacy = legacyConfigYAML
      plain == IF yaml THEN "config.backup.yaml" ELSE "config.backup.yml"
      stamped == IF yaml THEN "config.backup.<ts>.yaml" ELSE "config.backup.<ts>.yml"
  IN IF fileExists(files, plain) THEN stamped ELSE plain

\* The split files written out of the legacy document, each only where
\* there is no such file.
splitLegacy(files) ==
  [f \in ConfigFiles |-> IF f \in SplitFiles /\ ~fileExists(files, f) THEN "split" ELSE files[f]]

migrateLegacyConfigIfPresent(files, ex) ==
  LET legacy == legacyPath(files)
      anySplitExists == \E f \in SplitFiles : fileExists(files, f)
      split == IF anySplitExists THEN files ELSE splitLegacy(files)
      ensured == ensureSplitConfigFiles(split, ex)
  IN IF legacy = "-" THEN Done2(files)
     ELSE IF ensured.err THEN ensured
     ELSE Done2([ensured.files EXCEPT ![legacy] = "-",
                                      ![backupPath(ensured.files, legacy)] = files[legacy]])

Prepare(files, ex) ==
  LET m == migrateLegacyConfigIfPresent(files, ex)
  IN IF m.err THEN m ELSE ensureSplitConfigFiles(m.files, ex)

\* What the operator does in configs/: puts and removes a legacy file or a
\* split file.
operatorPut ==
  \E f \in SplitFiles \cup LegacyFiles :
  \E v \in {"-"} \cup (IF f \in LegacyFiles THEN {"legacy"} ELSE {"user"}) :
    /\ cfgDir.files[f] # v
    /\ cfgDir' = [cfgDir EXCEPT !.files[f] = v]
    /\ call' = NoCall
    /\ UNCHANGED notPrepare

\* A call of Prepare or of Load, which begins with Prepare; again tells
\* that the call before it was one that completed, with nothing done to
\* configs/ in between.
Called(fn, r) ==
  [fn |-> fn, before |-> cfgDir.files, err |-> r.err,
   again |-> call.fn \in {"Prepare", "Load"} /\ ~call.err,
   hot |-> cfgDir.phase = "up"]

\* Start: config.Prepare(configDir).
startPrepare ==
  /\ cfgDir.phase = "down"
  /\ \E ex \in BOOLEAN :
       LET r == Prepare(cfgDir.files, ex) IN
         /\ cfgDir' = [files |-> r.files, phase |-> IF r.err THEN "down" ELSE "prepared"]
         /\ call' = Called("Prepare", r)
  /\ UNCHANGED notPrepare

\* config.Load(configDir) of the startup reload, and of a hot reload.
configLoad ==
  /\ cfgDir.phase \in {"prepared", "up"}
  /\ \E ex \in BOOLEAN :
       LET r == Prepare(cfgDir.files, ex) IN
         /\ cfgDir' = [files |-> r.files,
                       phase |-> IF r.err /\ cfgDir.phase = "prepared" THEN "down" ELSE "up"]
         /\ call' = Called("Load", r)
  /\ UNCHANGED notPrepare

\* The process exits and is started again.
restart ==
  /\ cfgDir.phase # "down"
  /\ cfgDir' = [cfgDir EXCEPT !.phase = "down"]
  /\ call' = NoCall
  /\ UNCHANGED notPrepare

NextPrepare ==
  \/ operatorPut
  \/ startPrepare
  \/ configLoad
  \/ restart

InitPrepareOnly == Init /\ userCfg = "A" /\ userSsl = "k1"
SpecPrepare == InitPrepareOnly /\ [][NextPrepare]_vars

Next ==
  \/ AppStart
  \/ MaybeRestoreAfterCrash
  \/ ClearAfterRestore
  \/ nginxStart
  \/ setupWatchers
  \/ scheduleReload
  \/ Tick
  \/ TimerFire
  \/ Crash
  \/ Fatal
  \/ UserEdit
  \/ \E g \in Procs :
       \/ restoreWipeBegin(g)
       \/ restoreWipe(g)
       \/ restoreCopyBegin(g)
       \/ restoreCopy(g)
       \/ restoreConf(g)
       \/ Begin(g)
       \/ load(g)
       \/ scan(g)
       \/ stageRuntimeCertificates(g)
       \/ render(g)
       \/ writeRuntimeNginxConf(g)
       \/ activateOld(g)
       \/ activateNew(g)
       \/ writeNginxConf(g)
       \/ CheckHealth(g)
       \/ Commit(g)
       \/ saveGoodConfiguration(g)
       \/ Abort(g)
  \/ \E g \in Timers :
       \/ Callback(g)
       \/ Lock(g)
       \/ nginxReload(g)
       \/ restoreGoodConfiguration(g)
       \/ saveRestored(g)
       \/ nginxReloadAgain(g)
       \/ Return(g)

Spec == Init /\ [][Next]_vars

\* ------------------------------------------------ nginx.GenerateConfig
\* The renderer taken alone.  The text is kept as the sequence of its
\* blocks, each block with what the code writes into it, so that two texts
\* are byte-identical exactly when the two sequences are equal.  Go leaves
\* the order in which range visits a map open, and it differs from one
\* loop to the next: every loop over a map takes its order as an argument.

\* A routing table: upstream key -> the domain paths routed to it.
Route(d, p) == [domain |-> d, path |-> p]
TableOf(first, second) ==
  [k \in {"1234"} \cup (IF second = <<>> THEN {} ELSE {"5678"}) |->
     IF k = "1234" THEN first ELSE second]
RoutingTables ==
  { TableOf(<<Route("a.com", "")>>, <<>>),
    TableOf(<<Route("a.com", ""), Route("a.com", "/api")>>, <<>>),
    TableOf(<<Route("a.com", "/api"), Route("a.com", "/app")>>, <<>>),
    TableOf(<<Route("a.com", "")>>, <<Route("b.com", "")>>),
    TableOf(<<Route("a.com", "/api")>>, <<Route("a.com", "/app")>>),
    TableOf(<<Route("a.com", "/api")>>, <<Route("a.com", ""), Route("b.com", "")>>) }

\* A certificate map: host -> certificate; the patterns with "*." are left
\* out, every host is looked up by its own name.
CertOf(hosts) ==
  [h \in hosts |-> [CertPath |-> "certs/" \o h \o ".crt", KeyPath |-> "certs/" \o h \o ".key"]]
CertMaps == {CertOf({}), CertOf({"a.com"}), CertOf({"a.com", "b.com"})}

\* A CORS table: "*" or a host -> the settings, named by the origin they allow.
CorsOf(any, a) ==
  [k \in (IF any = "-" THEN {} ELSE {"*"}) \cup (IF a = "-" THEN {} ELSE {"a.com"}) |->
     IF k = "*" THEN any ELSE a]
CorsTables ==
  {CorsOf("-", "-"), CorsOf("*", "-"), CorsOf("-", "https://app"), CorsOf("*", "https://app")}

ListenPorts == {[http |-> "80", https |-> "443"], [http |-> "8080", https |-> "8443"]}

\* The orders in which a loop may visit the keys of a map.
Orders(S) ==
  {s \in [1..Cardinality(S) -> S] : \A i, j \in 1..Cardinality(S) : s[i] = s[j] => i = j}

\* getCORSConfig; "nil" for the nil pointer.
getCORSConfig(cfg, domain) ==
  IF "*" \in DOMAIN cfg.CORS THEN cfg.CORS["*"]
  ELSE IF domain \in DOMAIN cfg.CORS THEN cfg.CORS[domain]
  ELSE "nil"

\* generateCORSHeaders: the built-in headers for nil.
DefaultCORS == "default"
generateCORSHeaders(corsConfig) ==
  IF corsConfig = "nil" THEN DefaultCORS ELSE corsConfig

splitDomainPath(domainPath) == <<domainPath.domain, domainPath.path>>

\* ssl.FindCertificate, the exact match: the active certificate map is keyed
\* by the hosts of the routing table (FindCertificateRanged is the whole lookup).
FindCertificate(certMap, domain) ==
  IF domain \in DOMAIN certMap THEN certMap[domain] ELSE [CertPath |-> "", KeyPath |-> ""]
hasCert(certMap, domain) ==
  domain \in DOMAIN certMap /\ FindCertificate(certMap, domain).KeyPath # ""

\* sortRoutesByPathLength: the bubble sort, longest path first.
SwapAt(routes, j) == [routes EXCEPT ![j] = routes[j + 1], ![j + 1] = routes[j]]
RECURSIVE bubblePass(_, _, _)
bubblePass(routes, j, last) ==
  IF j > last THEN routes
  ELSE bubblePass(IF Len(routes[j].Path) < Len(routes[j + 1].Path)
                    THEN SwapAt(routes, j) ELSE routes,
                  j + 1, last)
RECURSIVE bubbleFrom(_, _)
bubbleFrom(routes, i) ==
  IF i >= Len(routes) - 1 THEN routes
  ELSE bubbleFrom(bubblePass(routes, 1, Len(routes) - i - 1), i + 1)
sortRoutesByPathLength(routes) == bubbleFrom(routes, 0)

\* The routes of one upstream key, and those of the keys in the order the
\* loop over cfg.Ports visits them.
RoutesOfKey(ports, portKey) ==
  [i \in 1..Len(ports[portKey]) |->
     [Upstream |-> portKey, DomainPath |-> ports[portKey][i],
      BaseDomain |-> splitDomainPath(ports[portKey][i])[1],
      Path |-> splitDomainPath(ports[portKey][i])[2]]]
RECURSIVE RoutesInOrder(_, _)
RoutesInOrder(ports, portOrder) ==
  IF portOrder = <<>> THEN <<>>
  ELSE RoutesOfKey(ports, Head(portOrder)) \o RoutesInOrder(ports, Tail(portOrder))
BaseDomainsOf(routes) == {routes[i].BaseDomain : i \in 1..Len(routes)}
domainRoutes(routes, baseDomain) ==
  SelectSeq(routes, LAMBDA r : r.BaseDomain = baseDomain)

\* The blocks of the text.
NoCert == [CertPath |-> "", KeyPath |-> ""]
Block(kind, listen, names, cert, locations) ==
  [block |-> kind, listen |-> listen, server_name |-> names, cert |-> cert,
   locations |-> locations]
Location(route, cors) ==
  [location |-> IF route.Path = "" THEN "/" ELSE route.Path \o "/",
   proxy_pass |-> route.Upstream, cors |-> cors]
ServerBlock(cfg, certMap, listen, routes, baseDomain) ==
  LET sorted == sortRoutesByPathLength(domainRoutes(routes, baseDomain))
      cors == generateCORSHeaders(getCORSConfig(cfg, baseDomain))
      locations == [i \in 1..Len(sorted) |-> Location(sorted[i], cors)]
  IN IF hasCert(certMap, baseDomain)
       THEN Block("https server", listen.https, <<baseDomain>>,
                  FindCertificate(certMap, baseDomain), locations)
       ELSE Block("http server", listen.http, <<baseDomain>>, NoCert, locations)

\* The orders of the three loops over a map: cfg.Ports, domainRoutes when
\* the hosts are collected, and domainRoutes when the blocks are written.
Iterations(cfg) ==
  LET hosts == BaseDomainsOf(RoutesInOrder(cfg.Ports, CHOOSE o \in Orders(DOMAIN cfg.Ports) : TRUE))
  IN [ports : Orders(DOMAIN cfg.Ports), collect : Orders(hosts), blocks : Orders(hosts)]

\* GenerateConfig, the text.
GenerateConfigText(cfg, certMap, listen, iter) ==
  LET routes == RoutesInOrder(cfg.Ports, iter.ports)
      domainsWithCerts == SelectSeq(iter.collect, LAMBDA d : hasCert(certMap, d))
      domainsWithoutCerts == SelectSeq(iter.collect, LAMBDA d : ~hasCert(certMap, d))
  IN (IF domainsWithCerts # <<>>
        THEN <<Block("redirect to https", listen.http, domainsWithCerts, NoCert, <<>>)>>
        ELSE <<>>)
     \o (IF domainsWithoutCerts # <<>>
           THEN <<Block("redirect to http", listen.https, domainsWithoutCerts, NoCert, <<>>)>>
           ELSE <<>>)
     \o [i \in 1..Len(iter.blocks) |->
           ServerBlock(cfg, certMap, listen, routes, iter.blocks[i])]

\* GenerateConfig called twice on one input.
generateTwice ==
  /\ call = NoCall
  /\ \E ports \in RoutingTables, cors \in CorsTables, certMap \in CertMaps,
        listen \in ListenPorts :
       LET cfg == [Ports |-> ports, CORS |-> cors] IN
         \E first \in Iterations(cfg), second \in Iterations(cfg) :
           call' = [fn |-> "GenerateConfig", cfg |-> cfg, certMap |-> certMap,
                    listen |-> listen,
                    first |-> GenerateConfigText(cfg, certMap, listen, first),
                    second |-> GenerateConfigText(cfg, certMap, listen, second)]
  /\ UNCHANGED notCall

\* The CORS headers GenerateConfig writes into the locations of one host.
corsOfHost ==
  /\ call = NoCall
  /\ \E cors \in CorsTables, domain \in {"a.com", "b.com"} :
       call' = [fn |-> "getCORSConfig", CORS |-> cors, domain |-> domain,
                headers |-> generateCORSHeaders(getCORSConfig([CORS |-> cors], domain))]
  /\ UNCHANGED notCall

returned ==
  /\ call # NoCall
  /\ call' = NoCall
  /\ UNCHANGED notCall

NextRender ==
  \/ generateTwice
  \/ corsOfHost
  \/ returned

InitRenderOnly == Init /\ userCfg = "A" /\ userSsl = "k1"
SpecRender == InitRenderOnly /\ [][NextRender]_vars

\* ------------------------------------------------ ssl.ScanCertificates
\* The selection among the certificates that name one host.  NotAfter is a
\* number of days.

\* The characters of the paths below in the order of their bytes.
Bytes ==
  <<".", "/", "A", "B", "E", "M", "P", "a", "b", "c", "e", "k", "m", "p", "r", "t", "x", "y">>
Code(c) == CHOOSE i \in 1..Len(Bytes) : Bytes[i] = c
\* s < t of two Go strings.
RECURSIVE StringLess(_, _)
StringLess(s, t) ==
  IF t = <<>> THEN FALSE
  ELSE IF s = <<>> THEN TRUE
  ELSE IF s[1] = t[1] THEN StringLess(Tail(s), Tail(t))
  ELSE Code(s[1]) < Code(t[1])
\* strings.EqualFold, on these characters.
EqualFold(s, t) == ToLower(s) = ToLower(t)

certificatePathPriority(path) ==
  LET ext == ToLower(Ext(path)) IN
  IF ext = <<".", "p", "e", "m">> THEN 2
  ELSE IF ext = <<".", "c", "r", "t">> THEN 1
  ELSE 0

isBetterLatest(existing, candidate) == candidate.NotAfter > existing.NotAfter
isBetterCertificate(existing, candidate) ==
  IF candidate.NotAfter > existing.NotAfter THEN TRUE
  ELSE IF existing.NotAfter > candidate.NotAfter THEN FALSE
  ELSE IF certificatePathPriority(candidate.CertPath) # certificatePathPriority(existing.CertPath)
    THEN certificatePathPriority(candidate.CertPath) > certificatePathPriority(existing.CertPath)
  ELSE IF ~EqualFold(candidate.CertPath, existing.CertPath)
    THEN StringLess(ToLower(candidate.CertPath), ToLower(existing.CertPath))
  ELSE StringLess(ToLower(candidate.KeyPath), ToLower(existing.KeyPath))

\* The files under ssl/ that hold a certificate: the path, the path of the
\* key findMatchingPrivateKeyInDir found in the directory (none: <<>>), and
\* the hosts the leaf names.
MaxNotAfter == 2
MaxVisited == 3
CertFile(certPath, keyPath, domains) ==
  [CertPath |-> certPath, KeyPath |-> keyPath, domains |-> domains]
CertFiles ==
  { CertFile(<<"a", ".", "c", "r", "t">>, <<"a", ".", "k", "e", "y">>, <<"a.com">>),
    CertFile(<<"b", ".", "p", "e", "m">>, <<"b", ".", "k", "e", "y">>, <<"a.com", "b.com">>),
    CertFile(<<"B", ".", "p", "e", "m">>, <<"b", ".", "k", "e", "y">>, <<"a.com">>),
    CertFile(<<"a", ".", "c", "e", "r">>, <<"a", ".", "k", "e", "y">>, <<"a.com", "b.com">>),
    CertFile(<<"B", ".", "c", "r", "t">>, <<"B", ".", "k", "e", "y">>, <<"a.com">>),
    CertFile(<<"x", ".", "p", "e", "m">>, <<>>, <<"a.com">>) }
ScanHosts == {"a.com", "b.com"}

Unset == [CertPath |-> <<>>, KeyPath |-> <<>>, NotAfter |-> 0]
EmptyCertMap == [h \in ScanHosts |-> Unset]
Certificate(file) ==
  [CertPath |-> file.CertPath, KeyPath |-> file.KeyPath, NotAfter |-> file.NotAfter]

\* The loop over the hosts of one certificate.
RECURSIVE addDomains(_, _, _)
addDomains(certMap, candidate, domains) ==
  IF domains = <<>> THEN certMap
  ELSE LET domain == Head(domains)
           prev == certMap[domain]
       IN addDomains(IF prev # Unset /\ ~isBetterCertificate(prev, candidate)
                       THEN certMap
                       ELSE [certMap EXCEPT ![domain] = candidate],
                     candidate, Tail(domains))

\* The walk: the files in the order they are visited.
RECURSIVE walk(_, _)
walk(certMap, files) ==
  IF files = <<>> THEN certMap
  ELSE walk(IF Head(files).KeyPath = <<>>
              THEN certMap
              ELSE addDomains(certMap, Certificate(Head(files)), Head(files).domains),
            Tail(files))

\* The visits of a scan: files of different paths, each with the day its
\* leaf expires.  filepath.Walk visits in the order of the names; the
\* selection is taken for every order.
Visit(file, notAfter) ==
  [CertPath |-> file.CertPath, KeyPath |-> file.KeyPath, domains |-> file.domains,
   NotAfter |-> notAfter]
VisitsOf(n) ==
  { [i \in 1..n |-> Visit(p[i][1], p[i][2])] :
      p \in {q \in [1..n -> CertFiles \X (1..MaxNotAfter)] :
               \A i, j \in 1..n : q[i][1] = q[j][1] => i = j} }
Visits == UNION {VisitsOf(n) : n \in 1..MaxVisited}

scanCertificates ==
  /\ call = NoCall
  /\ \E files \in Visits :
       call' = [fn |-> "ScanCertificates", files |-> files,
                certMap |-> walk(EmptyCertMap, files)]
  /\ UNCHANGED notCall

scanReturned ==
  /\ call # NoCall
  /\ call' = NoCall
  /\ UNCHANGED notCall

NextScan ==
  \/ scanCertificates
  \/ scanReturned

InitScanOnly == Init /\ userCfg = "A" /\ userSsl = "k1"
SpecScan == InitScanOnly /\ [][NextScan]_vars

\* ------------------------------------------------ config.ParseUpstream
\* strings.HasPrefix
HasPrefix(s, prefix) == Len(s) >= Len(prefix) /\ SubSeq(s, 1, Len(prefix)) = prefix
\* strings.Index(s, c), counted from 1; 0 when there is none
Index(s, c) ==
  IF \E i \in 1..Len(s) : s[i] = c
    THEN CHOOSE i \in 1..Len(s) : s[i] = c /\ \A j \in 1..(i - 1) : s[j] # c
    ELSE 0
\* strings.Count(s, ":")
Count(s) == Cardinality({i \in 1..Len(s) : s[i] = ":"})

Localhost == <<"1", "2", "7", ".", "0", ".", "0", ".", "1">>
HttpsPrefix == <<"[", "h", "t", "t", "p", "s", "]">>
Upstream(scheme, host, port, path) ==
  [Scheme |-> scheme, Host |-> host, Port |-> port, Path |-> path]

\* The part of ParseUpstream after the scheme and the path are taken off.
HostPort(scheme, key, path) ==
  LET closeBracket == Index(key, "]")
      lastColon == LastIndex(key)
      host == SubSeq(key, 1, lastColon - 1)
      port == SubSeq(key, lastColon + 1, Len(key))
  IN IF /\ HasPrefix(key, <<"[">>)
        /\ closeBracket > 1
        /\ closeBracket < Len(key)
        /\ key[closeBracket + 1] = ":"
       THEN Upstream(scheme, SubSeq(key, 2, closeBracket - 1),
                     SubSeq(key, closeBracket + 2, Len(key)), path)
     ELSE IF lastColon > 0
       THEN IF (host = <<>> \/ Index(port, ":") > 0) /\ Count(key) > 1
              THEN Upstream(scheme, Localhost, key, path)
            ELSE IF host = <<>>
              THEN Upstream(scheme, Localhost, port, path)
            ELSE Upstream(scheme, host, port, path)
     ELSE IF isNumeric(key)
       THEN Upstream(scheme, Localhost, key, path)
     ELSE Upstream(scheme, key, IF scheme = "https" THEN <<"4", "4", "3">> ELSE <<"8", "0">>,
                   path)

ParseUpstream(key) ==
  LET k1 == TrimSuffix(key)
      scheme == IF HasPrefix(k1, HttpsPrefix) THEN "https" ELSE "http"
      k2 == IF HasPrefix(k1, HttpsPrefix) THEN SubSeq(k1, Len(HttpsPrefix) + 1, Len(k1)) ELSE k1
      slashIdx == Index(k2, "/")
  IN IF slashIdx > 1
       THEN HostPort(scheme, SubSeq(k2, 1, slashIdx - 1), SubSeq(k2, slashIdx, Len(k2)))
       ELSE HostPort(scheme, k2, <<>>)

\* The keys: every string of up to MaxKeyLen of these characters, and the
\* shorter ones again behind "[https]".
MaxKeyLen == 4
KeyChars == {"8", "a", ":", "/", "[", "]"}
StringsUpTo(n) == UNION {[1..m -> KeyChars] : m \in 0..n}
UpstreamKeys ==
  StringsUpTo(MaxKeyLen) \cup {HttpsPrefix \o s : s \in StringsUpTo(MaxKeyLen - 2)}

\* ------------------------------------------------------ app.domainLess
\* strings.Split(s, "."): the labels, an empty one between two dots.
RECURSIVE Split(_)
Split(s) ==
  IF Index(s, ".") = 0 THEN <<s>>
  ELSE <<SubSeq(s, 1, Index(s, ".") - 1)>> \o Split(SubSeq(s, Index(s, ".") + 1, Len(s)))

\* The domain and the path of an entry: the path begins at the first
\* slash that is not the first character.
DomainOf(a) == IF Index(a, "/") > 1 THEN SubSeq(a, 1, Index(a, "/") - 1) ELSE a
PathOf(a) == IF Index(a, "/") > 1 THEN SubSeq(a, Index(a, "/"), Len(a)) ELSE <<>>

\* The loop over the labels from the last one on; ai and bi count the
\* labels still to compare.
RECURSIVE labelsLessNoLength(_, _, _, _)
labelsLessNoLength(ap, bp, ai, bi) ==
  IF ai >= 1 /\ bi >= 1
    THEN IF ap[ai] # bp[bi] THEN StringLess(ap[ai], bp[bi])
         ELSE labelsLessNoLength(ap, bp, ai - 1, bi - 1)
    ELSE FALSE
RECURSIVE labelsLess(_, _, _, _)
labelsLess(ap, bp, ai, bi) ==
  IF ai >= 1 /\ bi >= 1
    THEN IF ap[ai] # bp[bi] THEN StringLess(ap[ai], bp[bi])
         ELSE labelsLess(ap, bp, ai - 1, bi - 1)
    ELSE Len(ap) < Len(bp)

domainLess(x, y) ==
  LET a == ToLower(TrimSpace(x))
      b == ToLower(TrimSpace(y))
  IN IF a = b THEN FALSE
     ELSE IF DomainOf(a) # DomainOf(b)
       THEN labelsLess(Split(DomainOf(a)), Split(DomainOf(b)),
                       Len(Split(DomainOf(a))), Len(Split(DomainOf(b))))
     ELSE IF PathOf(a) = <<>> /\ PathOf(b) # <<>> THEN TRUE
     ELSE IF PathOf(a) # <<>> /\ PathOf(b) = <<>> THEN FALSE
     ELSE StringLess(PathOf(a), PathOf(b))

\* The lowercase domains: every string of up to MaxDomainLen letters and
\* dots, and some entries with a path.
MaxDomainLen == 3
DomainChars == {"a", "b", "."}
Domains == UNION {[1..m -> DomainChars] : m \in 1..MaxDomainLen}
PathEntries ==
  {<<"a", "/">>, <<"a", "/", "a">>, <<"a", "/", "b">>, <<"b", "/", "a">>}

\* Three entries compared with each other, as a sort does.
compareDomains ==
  /\ call = NoCall
  /\ \E a \in Domains \cup PathEntries, b \in Domains \cup PathEntries,
        c \in Domains \cup PathEntries :
       call' = [fn |-> "domainLess", a |-> a, b |-> b, c |-> c,
                aa |-> domainLess(a, a), ab |-> domainLess(a, b),
                ba |-> domainLess(b, a), bc |-> domainLess(b, c),
                ac |-> domainLess(a, c)]
  /\ UNCHANGED notCall

parseUpstream ==
  /\ call = NoCall
  /\ \E key \in UpstreamKeys :
       call' = [fn |-> "ParseUpstream", key |-> key, upstream |-> ParseUpstream(key)]
  /\ UNCHANGED notCall

pureReturned ==
  /\ call # NoCall
  /\ call' = NoCall
  /\ UNCHANGED notCall

NextPure ==
  \/ parseUpstream
  \/ compareDomains
  \/ pureReturned

InitPureOnly == Init /\ userCfg = "A" /\ userSsl = "k1"
SpecPure == InitPureOnly /\ [][NextPure]_vars

\* ------------------------------------------- Commit returning an error
\* backupManager.Commit(snapID) returns the error of one of its copies
\* (configs/ and ssl/ are the operator's and change under the copy): the state
\* file is not written, the marker stands.  Start and handleReload log the
\* error and go on to saveGoodConfiguration.
CommitCopyFails(g) ==
  /\ pc[g] = "commit"
  /\ SnapID(g) # 0
  /\ Goto(g, "save")
  /\ UNCHANGED <<diskVars, proxy, loc, lastGoodConf, reloadMu, seq, timer, histVars>>
  /\ UNCHANGED notMain

\* The reload pipeline with the copies of Commit allowed to fail.
NextIO ==
  \/ Next
  \/ \E g \in Procs : CommitCopyFails(g)

SpecIO == Init /\ [][NextIO]_vars

\* --------------------------------------------------------- app.Stop
\* main calls Stop on SIGINT or SIGTERM, after Start returned.  The consumer
\* goroutines of setupWatchers are not waited for: one that has received an
\* event goes on to scheduleReload, and so does a timer callback that has
\* fired.  (An event in hand at a process exit is acted on no earlier than
\* the next run's consumers exist.)
notStop == <<staticVars, watchVars, call, cfgDir>>
Stopping == {"stopTimer", "stopProxy", "stopped"}

\* A consumer receives from its watcher's channel an event it acts on.
consumerReceives ==
  /\ pc[Main] = "running"
  /\ ~inHand
  /\ inHand' = TRUE
  /\ UNCHANGED <<mainVars, notStop>>

\* The consumer calls scheduleReload() for the event it holds.
scheduleInHand ==
  /\ inHand
  /\ pc[Main] \in {"running"} \cup Stopping
  /\ seq < MaxSeq
  /\ inHand' = FALSE
  /\ seq' = seq + 1
  /\ timer' = ArmedTimer(seq + 1)
  /\ burst' = BurstAfterEvent
  /\ UNCHANGED <<diskVars, proxy, pc, loc, lastGoodConf, reloadMu,
                 hist, crashInfo, uncommitted>>
  /\ UNCHANGED notStop

\* Stop: a.configWatcher.Stop(); a.sslWatcher.Stop(): the channels are
\* closed and no further event is received.
StopWatchers ==
  /\ pc[Main] = "running"
  /\ Goto(Main, "stopTimer")
  /\ UNCHANGED <<diskVars, proxy, loc, lastGoodConf, reloadMu, seq, timer, histVars>>
  /\ UNCHANGED <<notStop, inHand>>

\* Stop, under reloadDebounceMu: the pending timer is stopped and dropped.
StopTimer ==
  /\ pc[Main] = "stopTimer"
  /\ timer' = NoTimer
  /\ Goto(Main, "stopProxy")
  /\ UNCHANGED <<diskVars, proxy, loc, lastGoodConf, reloadMu, seq, histVars>>
  /\ UNCHANGED <<notStop, inHand>>

\* Stop: a.nginxManager.Stop() kills the proxy; Stop returns.
StopProxy ==
  /\ pc[Main] = "stopProxy"
  /\ proxy' = [up |-> FALSE, conf |-> NoConf]
  /\ Goto(Main, "stopped")
  /\ UNCHANGED <<diskVars, loc, lastGoodConf, reloadMu, seq, timer, histVars>>
  /\ UNCHANGED <<notStop, inHand>>

NextStop ==
  \/ Next
  \/ consumerReceives
  \/ scheduleInHand
  \/ StopWatchers
  \/ StopTimer
  \/ StopProxy

SpecStop == Init /\ [][NextStop]_vars

\* ------------------------------------------------ ssl.FindCertificate
\* The whole lookup: the exact match on the lower-cased host, then the range
\* over the map, which returns at the first key "*.suffix" that matches.
\* order is the order in which the range visits the keys.
HasSuffix(s, suffix) ==
  Len(s) >= Len(suffix) /\ SubSeq(s, Len(s) - Len(suffix) + 1, Len(s)) = suffix
\* strings.HasPrefix(pat, "*.") && strings.HasSuffix(domain, pat[1:]) && domain != pat[2:]
wildcardMatches(pat, domain) ==
  /\ HasPrefix(pat, <<"*", ".">>)
  /\ HasSuffix(domain, Tail(pat))
  /\ domain # SubSeq(pat, 3, Len(pat))
NotFound == [cert |-> NoCert, ok |-> FALSE]
RECURSIVE rangeCertMap(_, _, _, _)
rangeCertMap(certMap, domain, order, i) ==
  IF i > Len(order) THEN NotFound
  ELSE IF wildcardMatches(order[i], domain)
    THEN [cert |-> certMap[order[i]], ok |-> TRUE]
    ELSE rangeCertMap(certMap, domain, order, i + 1)
FindCertificateRanged(certMap, domain, order) ==
  LET d == ToLower(TrimSpace(domain))
  IN IF d \in DOMAIN certMap
       THEN [cert |-> certMap[d], ok |-> TRUE]
       ELSE rangeCertMap(certMap, d, order, 1)

\* Keys of one certificate store.
MaxStoreKeys == 3
StoreKeys ==
  {<<"*", ".", "b">>, <<"*", ".", "a", ".", "b">>, <<"m", ".", "a", ".", "b">>, <<"a", ".", "b">>}
StoreCerts ==
  {[CertPath |-> "ssl/one.crt", KeyPath |-> "ssl/one.key"],
   [CertPath |-> "ssl/two.crt", KeyPath |-> "ssl/two.key"]}
CertStores ==
  UNION {[keys -> StoreCerts] : keys \in {k \in SUBSET StoreKeys : Cardinality(k) <= MaxStoreKeys}}
FindHosts ==
  {<<"m", ".", "a", ".", "b">>, <<"M", ".", "a", ".", "b">>, <<"e", ".", "a", ".", "b">>,
   <<"a", ".", "b">>, <<"b">>, <<" ", "p", ".", "b">>}

\* Two calls with one store and one host.
findCertificate ==
  /\ call = NoCall
  /\ \E certMap \in CertStores, domain \in FindHosts :
       \E o1 \in Orders(DOMAIN certMap), o2 \in Orders(DOMAIN certMap) :
         call' = [fn |-> "FindCertificate", certMap |-> certMap, domain |-> domain,
                  first |-> FindCertificateRanged(certMap, domain, o1),
                  again |-> FindCertificateRanged(certMap, domain, o2)]
  /\ UNCHANGED notCall

NextFind ==
  \/ findCertificate
  \/ pureReturned

InitFindOnly == Init /\ userCfg = "A" /\ userSsl = "k1"
SpecFind == InitFindOnly /\ [][NextFind]_vars

\* ================================================================ claims
\* A hot reload has run to completion: handleReload is about to return.
Returning(g) == g \in Timers /\ pc[g] = "ret"
\* The reload of g committed its snapshot / left last_good as it found it.
Promoted(g) == bstate.lastGood = SnapID(g)
Unchanged(g) == bstate.lastGood = loc[g].lg0

Recovered == pc[Main] = "begin" /\ crashInfo.mid
C2_CrashRecovery ==
  Recovered =>
    /\ loc[Main].restored = "yes"
    /\ bstate.inProgress = 0
    /\ bstate.lastGood = crashInfo.lastGood
    /\ rt.current = snapshot.runtime.current
    /\ nginxConf = snapshot.nginx

\* Such a start, the interrupted reload having left other contents behind.
C2_Witness == Recovered /\ crashInfo.dirty

\* C3: no step of RestoreLastGood or MaybeRestoreAfterCrash changes configs/
\* or ssl/ (nor the snapshot it restores from).
RestorePcs == {"recover", "wipe", "wipe2", "copy", "copy2", "rconf", "clear"}
Healthy(g) ==
  /\ Len(hist[g]) >= 2
  /\ hist[g][Len(hist[g]) - 1] \in {"start", "reload"}
  /\ hist[g][Len(hist[g])] = "health"
C4_PromotionAfterHealth ==
  [][bstate'.lastGood # bstate.lastGood
       => \E g \in Procs : /\ pc[g] = "commit"
                            /\ bstate'.lastGood = SnapID(g)
                            /\ Healthy(g)]_vars

\* A hot reload has promoted its snapshot.
C4_Witness == \E g \in Timers : pc[g] = "save" /\ Promoted(g)

\* C5 as stated: the marker is non-empty iff some reload is past its staging
\* step and has neither committed nor aborted.
PastStaging == InSnapshot \ {"load", "scan", "stage"}
PastRecovery == pc[Main] \notin ({"down"} \cup RestorePcs)
HotBody == InSnapshot \cup {"begin", "save", "restore", "wipe", "wipe2", "copy", "copy2", "rconf",
                            "save2", "reload2", "ret"}
Idle == pc[Main] = "running" /\ \A g \in Timers : pc[g] \notin HotBody
C7_OneReloadPerBurst ==
  burst.ok =>
    /\ burst.reloads <= 1
    /\ (Quiet /\ pc[Main] = "running") => burst.reloads = 1

\* A burst of two events has had its one reload.
C7_Witness == burst.ok /\ Quiet /\ seq = burst.first + 1 /\ burst.reloads = 1

\* C8: at most one goroutine is inside the reload procedure, Start's and
\* handleReload's taken together.
Executing(g) == IF g = Main THEN pc[g] \in InSnapshot \cup {"save"} ELSE pc[g] \in HotBody
C8_OneReloadAtATime == Cardinality({g \in Procs : Executing(g)}) <= 1

\* A callback waits for the reload mutex while another runs the body.
C8_Witness == \E g, h \in Timers : Executing(g) /\ pc[h] = "lock"

\* C9: a reload that has committed took its steps in the fixed order.
StepOrder(g) ==
  <<"load", "scan", "stage", "render", "write", "activate",
    IF g = Main THEN "start" ELSE "reload", "health", "commit">>
Committed(g) == Len(hist[g]) > 0 /\ hist[g][Len(hist[g])] = "commit"
C9_FixedOrder == \A g \in Procs : Committed(g) => hist[g] = StepOrder(g)

\* A hot reload has committed.
C9_Witness == \E g \in Timers : Committed(g) /\ pc[g] = "ret"

\* C10: a hot reload whose proxy.Reload() or CheckHealth() failed returns
\* after Abort, restore and one further proxy.Reload(), in this order, its
\* snapshot neither last_good nor in progress.
ProxyFailed(g) == Returning(g) /\ loc[g].failAt \in {"reload", "health"}
C10_RecoveryPath ==
  \A g \in Timers : ProxyFailed(g) =>
    /\ hist[g] = <<"abort", "restore", "reload">>
    /\ bstate.lastGood # SnapID(g)
    /\ bstate.inProgress # SnapID(g)

\* A hot reload returns after its proxy.Reload() failed.
C10_Witness == \E g \in Timers : Returning(g) /\ loc[g].failAt = "reload"

\* C11 as stated: a hot reload whose staging or activation failed returns
\* after Abort, restore and then a proxy.Reload().
StageFailed(g) == Returning(g) /\ loc[g].failAt \in {"stage", "activate"}
C11_AsStated ==
  \A g \in Timers : StageFailed(g) => hist[g] = <<"abort", "restore", "reload">>

\* C11 amended: such a reload returns after Abort and restore without calling
\* proxy.Reload(): the proxy, which this reload has not signalled, keeps the
\* config it served, and the snapshot is neither last_good nor in progress.
C11_StageFailurePath ==
  \A g \in Timers : StageFailed(g) =>
    /\ hist[g] = <<"abort", "restore">>
    /\ bstate.lastGood # SnapID(g)
    /\ bstate.inProgress # SnapID(g)

\* A hot reload returns after its activation failed.
C11_Witness == \E g \in Timers : Returning(g) /\ loc[g].failAt = "activate"

\* C12 as stated: activateRuntimeSnapshot, on success, leaves in current/ the
\* former stage/<id>/, in old/ the former current/ and no stage/<id>/; when it
\* returns an error after current/ was moved aside, current/ holds again what
\* it held before the call.
MovedAside(g) == pc[g] = "actOld" /\ pc'[g] = "actNew"
Swapped(g) == pc[g] = "actNew" /\ pc'[g] = "conf"
SwapFailed(g) == pc[g] = "actNew" /\ pc'[g] = "abort" /\ rt.old # NoDir
ActivateSuccess(g) ==
  /\ MovedAside(g) => rt'.old = rt.current /\ rt'.current = NoDir /\ rt'.stage = rt.stage
  /\ Swapped(g) => rt'.current = rt.stage /\ rt'.old = rt.old /\ rt'.stage = NoDir
ActivateErrorAsStated(g) == SwapFailed(g) => rt'.current = rt.old
C12_AsStated ==
  [][\A g \in Procs : ActivateSuccess(g) /\ ActivateErrorAsStated(g)]_vars

\* C12 amended: ... when it returns an error after current/ was moved aside,
\* current/ holds again what it held before the call if the rename of old/
\* back succeeded; if that rename failed too, current/ does not exist and
\* old/ holds those contents.
ActivateError(g) ==
  SwapFailed(g) => \/ rt'.current = rt.old /\ rt'.old = NoDir
                   \/ rt'.current = NoDir /\ rt'.old = rt.old
C12_ActivateSwap ==
  [][\A g \in Procs : ActivateSuccess(g) /\ ActivateError(g)]_vars

\* An activation has succeeded over an existing current/: current/ holds the
\* staged snapshot of this reload, old/ the previous one.
C12_Witness ==
  \E g \in Timers :
    /\ pc[g] = "conf"
    /\ rt.current.conf = loc[g].nginxConfig
    /\ rt.old # NoDir
    /\ rt.old.conf # rt.current.conf
    /\ rt.stage = NoDir

\* C13: at every instant of a reload, its rollback included, current/ is a
\* complete snapshot (or absent, between the two renames of an activation):
\* never a directory holding part of a snapshot's files.
Rollback == {"wipe", "wipe2", "copy", "copy2", "rconf", "save2"}
C13_CompleteCurrent ==
  \A g \in Timers : pc[g] \in InSnapshot \cup Rollback => rt.current # PartialDir

\* C14: when the overall outcome of a reload is failure, every static-site
\* server the reload bound is stopped and every server that ran before it
\* still runs.
OverallFailure == spc = "done" /\ outcome = "failed"
C14_FailureKeepsServers ==
  OverallFailure => /\ prep.pendingAdds \cap running = {}
                    /\ before \subseteq running

\* C15: a directory key with an explicit port P, no matching server running,
\* its directory existing, P free and used by no other mapping key: a listener
\* is bound on P and the effective table maps the numeric key P to the key's
\* domains.
Prepared == spc = "body" /\ ~prep.fast
PortUnused(want) ==
  /\ \A srv \in before : srv.port # want.port
  /\ \A w \in prep.desiredSites : w.hasPort /\ w.port = want.port => w = want
  /\ \A ks \in NumericKeys(cfgPorts) : Atoi(ks) # want.port
C15_ExplicitPortBound ==
  Prepared =>
    \A want \in prep.desiredSites :
      (/\ want.hasPort
       /\ \A srv \in prep.keep : srv.key # want.key
       /\ want.key \in prep.dirs
       /\ PortUnused(want))
      => /\ [key |-> want.key, dir |-> want.dir, port |-> want.port] \in running
         /\ [key |-> Itoa(want.port), domains |-> want.domains] \in prep.effective

\* C16: the effective routing table handed to the renderer holds no
\* directory-typed key (one beginning with '.' or '/').
C16_NoDirectoryKey ==
  spc \in {"body", "proxy", "done"} => \A m \in prep.effective : ~HasDirPrefix(m.key)


UnderInternal(p) == UnderSubtree(p, DefaultBackupRoot) \/ UnderSubtree(p, runtimeDir)

\* C17: the watcher of the configuration directory delivers no event whose
\* path lies under .sslly-backups or .sslly-runtime: no such event is ever
\* in w.Events.
C17_NoInternalEvents ==
  \A i \in 1..Len(wEvents) : ~UnderInternal(wEvents[i].name)

\* C18: a write the reload performs under .sslly-backups or .sslly-runtime
\* never makes the consumer call scheduleReload.
C18_NoSelfTrigger ==
  handled.did = "scheduleReload" =>
    /\ ~UnderInternal(handled.name)
    /\ handled.name \notin {e.name : e \in InternalWrites}

\* The consumer received the event of a write under .sslly-runtime and
\* passed over it.
C18_Witness ==
  /\ handled.did = "continue"
  /\ UnderSubtree(handled.name, runtimeDir)
  /\ handled.name \in {e.name : e \in InternalWrites}

\* C19: every create, write and remove of a file in a subdirectory made
\* while the watcher runs produces an event for w.Events.
C19_NewSubdirEvents == missed = NoItem

\* C20: Stop returns once called, the channels are closed only after the
\* forwarder has exited, and the forwarder never sends on a closed channel.
C20_StopReturns ==
  /\ [](ChannelsClosed => fwd.pc = "exited")
  /\ [](fwd.pc # "panic")
  /\ (stopPc = "wait") ~> (stopPc = "stopped")

\* Stop has returned although the forwarder was holding an event for a
\* full w.Events when Stop was called: the event is still in the buffer.
C20_Witness ==
  /\ stopPc = "stopped"
  /\ fwd.pc = "exited"
  /\ Len(wEvents) = EventsCap


\* C21: every create, write or remove event of either watcher whose path
\* is not under an internal subtree makes the consumer call scheduleReload.
C21_AsStated ==
  (handled.op \in Ops /\ ~UnderInternal(handled.name)) =>
    handled.did = "scheduleReload"

\* C21 as the code has it: the consumer of the configuration watcher calls
\* scheduleReload for a create or a write whose path it does not take for
\* internal, and for no remove; the consumer of the TLS watcher calls it
\* for every create, write and remove.
C21_EventsSchedule ==
  /\ (OfSsl /\ handled.op \in Ops) => handled.did = "scheduleReload"
  /\ (~OfSsl /\ handled.op \in {"CREATE", "WRITE"} /\ ~isInternalConfigPath(handled.name)) =>
       handled.did = "scheduleReload"
  /\ (~OfSsl /\ handled.op = "REMOVE") => handled.did # "scheduleReload"

\* The consumer of the TLS watcher has called scheduleReload for a remove.
C21_Witness ==
  /\ OfSsl
  /\ handled.op = "REMOVE"
  /\ handled.did = "scheduleReload"


\* The certificate files the directives of a proxy config name.
ReferredFiles(conf) ==
  IF conf.certDir = "runtime/current" THEN rt.current.certs
  ELSE IF conf.certDir = "ssl" THEN userSsl
  ELSE "-"

C23_DistinctStagedPaths ==
  call.fn = "stageRuntimeCertificates" => call.stageCertPath # call.stageKeyPath

\* A base host whose certificate and key come from files of one name.
C23_Witness ==
  /\ call.fn = "stageRuntimeCertificates"
  /\ call.certPath = call.keyPath
  /\ call.stageCertPath # call.stageKeyPath


\* A step in which MaybeRestoreAfterCrash returns without restoring.
ReturnsFalse ==
  /\ pc[Main] = "recover"
  /\ pc'[Main] = "begin"
  /\ loc'[Main].restored = "no"
Untouched == rt' = rt /\ nginxConf' = nginxConf /\ snapshot' = snapshot

\* C24: MaybeRestoreAfterCrash with in_progress set and no last_good clears
\* in_progress, restores nothing and returns false; with in_progress empty
\* it returns false and leaves the state file, the runtime cache and the
\* proxy config file as they are.
C24_NothingToRestore ==
  [][/\ (pc[Main] = "recover" /\ bstate.inProgress # 0 /\ bstate.lastGood = 0
           /\ pc'[Main] # "down") =>
          /\ ReturnsFalse
          /\ bstate' = [lastGood |-> 0, inProgress |-> 0]
          /\ Untouched
     /\ (pc[Main] = "recover" /\ bstate.inProgress = 0 /\ pc'[Main] # "down") =>
          /\ ReturnsFalse
          /\ bstate' = bstate
          /\ Untouched]_vars

\* The process went down in its first reload, before any commit, and has
\* come back up past MaybeRestoreAfterCrash.
C24_Witness ==
  /\ pc[Main] = "begin"
  /\ crashInfo.inProgress # 0
  /\ crashInfo.lastGood = 0
  /\ loc[Main].restored = "no"
  /\ bstate.inProgress = 0


\* C25: Commit(id) succeeds only when in_progress is id; when in_progress
\* is another id or none, it returns an error and leaves last_good and
\* in_progress as they were.
C25_CommitNeedsInProgress ==
  call.fn = "Commit" =>
    /\ ~call.err => (call.before.inProgress = call.id /\ bstate = CommitState(call.id))
    /\ call.before.inProgress # call.id => (call.err /\ bstate = call.before)

\* Commit of an id refused while another id is in progress.
C25_Witness ==
  /\ call.fn = "Commit"
  /\ call.err
  /\ call.before.inProgress \notin {0, call.id}
  /\ bstate = call.before


\* C26: a hot reload leaves every file of the operator under configs/ as
\* it is; the migration of a legacy config is no part of it.
C26_AsStated == (call.fn = "Load" /\ call.hot) => cfgDir.files = call.before

\* C26 as the code has it: the load of a hot reload prepares configs/
\* first.  It leaves every split file that was there as it was, creates
\* the split files that were missing, and moves a legacy file that was
\* there to a backup name; it touches nothing else.
Kept(f) == cfgDir.files[f] = call.before[f]
C26_HotLoadPrepares ==
  (call.fn = "Load" /\ call.hot) =>
    /\ \A f \in SplitFiles : fileExists(call.before, f) => Kept(f)
    /\ \A f \in LegacyFiles : Kept(f) \/ (~call.err /\ f = legacyPath(call.before)
                                          /\ ~fileExists(cfgDir.files, f))
    /\ \A f \in BackupFiles : Kept(f) \/ (f = backupPath(call.before, legacyPath(call.before))
                                          /\ cfgDir.files[f] = "legacy")
    /\ ~call.err => \A f \in SplitFiles : fileExists(cfgDir.files, f)

\* A hot reload has moved a legacy file the operator put into configs/
\* while the supervisor ran.
C26_Witness ==
  /\ call.fn = "Load"
  /\ call.hot
  /\ fileExists(call.before, legacyConfigYAML)
  /\ ~fileExists(cfgDir.files, legacyConfigYAML)
  /\ cfgDir.files["config.backup.yaml"] = "legacy"

\* C27: Prepare on a directory on which a Prepare has completed, with
\* nothing done to it since, leaves every file as it is.
C27_PrepareTwice ==
  (call.fn \in {"Prepare", "Load"} /\ call.again) => cfgDir.files = call.before


\* C28: the renderer is deterministic: two calls on an equal routing table,
\* certificate map, CORS table and listen ports return the same text.
C28_Deterministic ==
  call.fn = "GenerateConfig" => call.first = call.second

\* C29: the CORS headers of a host are those of its own entry of the CORS
\* table if there is one, else those of the "*" entry if there is one, else
\* the built-in default.
C29_CorsPrecedence ==
  call.fn = "getCORSConfig" =>
    call.headers = IF call.domain \in DOMAIN call.CORS THEN call.CORS[call.domain]
                   ELSE IF "*" \in DOMAIN call.CORS THEN call.CORS["*"]
                   ELSE DefaultCORS


\* The usable candidates of a scan for a host: the certificates visited
\* that have a key and name the host.
Names(file, h) == \E k \in 1..Len(file.domains) : file.domains[k] = h
Usable(h) ==
  {Certificate(call.files[i]) : i \in {k \in 1..Len(call.files) :
     call.files[k].KeyPath # <<>> /\ Names(call.files[k], h)}}
Latest(S) == {c \in S : \A d \in S : d.NotAfter <= c.NotAfter}
IsExt(c, ext) == ToLower(Ext(c.CertPath)) = ext
PemOverCrt(S) ==
  IF \E c \in S : IsExt(c, <<".", "p", "e", "m">>)
    THEN {c \in S : ~IsExt(c, <<".", "c", "r", "t">>)}
    ELSE S
FirstByPath(S) ==
  {c \in S : \A d \in S :
     /\ ~StringLess(d.CertPath, c.CertPath)
     /\ d.CertPath = c.CertPath => ~StringLess(d.KeyPath, c.KeyPath)}

\* C30: the certificate selected for a host is the one of the greatest
\* not_after among the usable candidates, among these a .pem rather than
\* a .crt, among these the first by cert path, then by key path, in
\* whatever order the files are visited.
C30_AsStated ==
  call.fn = "ScanCertificates" =>
    \A h \in ScanHosts :
      Usable(h) # {} => call.certMap[h] \in FirstByPath(PemOverCrt(Latest(Usable(h))))

\* C30 as the code has it: the extensions rank .pem, then .crt, then any
\* other; the paths are compared in lower case; of candidates that still
\* tie, whose paths differ in case only, the first visited is kept.
TopPriority(S) ==
  {c \in S : \A d \in S :
     certificatePathPriority(d.CertPath) <= certificatePathPriority(c.CertPath)}
FirstFolded(S) ==
  {c \in S : \A d \in S :
     /\ ~StringLess(ToLower(d.CertPath), ToLower(c.CertPath))
     /\ EqualFold(d.CertPath, c.CertPath)
          => ~StringLess(ToLower(d.KeyPath), ToLower(c.KeyPath))}
Top(h) == FirstFolded(TopPriority(Latest(Usable(h))))
FirstVisited(S) ==
  Certificate(call.files[CHOOSE i \in 1..Len(call.files) :
    /\ Certificate(call.files[i]) \in S
    /\ \A j \in 1..Len(call.files) : Certificate(call.files[j]) \in S => i <= j])
C30_Selected ==
  call.fn = "ScanCertificates" =>
    \A h \in ScanHosts :
      IF Usable(h) = {} THEN call.certMap[h] = Unset
      ELSE call.certMap[h] = FirstVisited(Top(h))

\* A .pem visited after a .crt of the same day has replaced it.
C30_Witness ==
  /\ call.fn = "ScanCertificates"
  /\ Len(call.files) >= 2
  /\ call.files[1].NotAfter = call.files[2].NotAfter
  /\ certificatePathPriority(call.files[1].CertPath) = 1
  /\ certificatePathPriority(call.files[2].CertPath) = 2
  /\ call.certMap["a.com"] = Certificate(call.files[2])


\* C31: ParseUpstream returns, for every key, an upstream with the scheme
\* http or https, a port that is not empty and a host that is not empty.
C31_Total ==
  call.fn = "ParseUpstream" =>
    /\ call.upstream.Scheme \in {"http", "https"}
    /\ call.upstream.Port # <<>>
    /\ call.upstream.Host # <<>>


\* C32: domainLess is a strict total order on lowercase domains: no
\* domain is less than itself, of two domains not both are less than the
\* other, less is transitive, and of two different domains one is less
\* than the other.
C32_StrictTotalOrder ==
  (call.fn = "domainLess" /\ {call.a, call.b, call.c} \subseteq Domains) =>
    /\ ~call.aa
    /\ ~(call.ab /\ call.ba)
    /\ (call.ab /\ call.bc) => call.ac
    /\ call.a # call.b => (call.ab \/ call.ba)

\* Two domains that agree on every label they share, told apart by the
\* number of their labels, below a third.
C32_Witness ==
  /\ call.fn = "domainLess"
  /\ {call.a, call.b, call.c} \subseteq Domains
  /\ call.a = <<"b">>
  /\ call.b = <<"a", ".", "b">>
  /\ call.ab /\ call.bc /\ call.ac


\* C33: a timer callback whose sequence number is not the current one when
\* it makes its check returns; it takes no step towards the reload.
C33_StaleReturns ==
  [][\A g \in Timers :
       (pc[g] = "cb" /\ g # seq) => pc'[g] \in {"cb", "none"}]_vars

\* A callback has fired and an event has come after the one that armed it.
C33_Witness == \E g \in Timers : pc[g] = "cb" /\ g # seq /\ pc[Main] = "running"


\* The static sites a preparation leaves serving and, of a set of them,
\* those whose key names no port.
Served == prep.keep \cup prep.pendingAdds
AutoSites(sites) ==
  {srv \in sites : \E w \in prep.desiredSites : w.key = srv.key /\ ~w.hasPort}
NumericPorts == {Atoi(ks) : ks \in NumericKeys(cfgPorts)}
ProperPort(srv) ==
  /\ srv.port \in autoPortBase..maxPort
  /\ srv.port \notin NumericPorts
  /\ \A other \in Served : other.key # srv.key => other.port # srv.port

\* C34: after the preparation every auto-allocated port of a static site
\* lies in [10000, 65535], is no numeric key of the routing table and is
\* the port of no other kept or newly bound static site.
C34_AutoPorts ==
  (spc = "body" /\ ~prep.fast) => \A srv \in AutoSites(Served) : ProperPort(srv)


\* C35: whenever Start or a hot reload has returned and no reload is running
\* (the process is up, no goroutine is inside handleReload), the in-progress
\* marker of state.json is empty.
NoReloadRunning == pc[Main] = "running" /\ reloadMu = Free
C35_MarkerEmpty == NoReloadRunning => bstate.inProgress = 0


\* C36: when a failed hot reload returns, the proxy config file and
\* runtime/current/ are of one generation: the certificates the file names
\* under runtime/current/ are there, with the content staged for that file.
FailedReloadReturns(g) == pc[g] = "ret" /\ loc[g].failAt # "-"
SameGeneration ==
  nginxConf.certDir = "runtime/current" => rt.current.certs = nginxConf.ssl
C36_SameGeneration == \A g \in Timers : FailedReloadReturns(g) => SameGeneration


\* C37: while the rollback of a failed hot reload runs (the disk a process
\* exit would leave), whenever runtime/current/ and the proxy config file
\* hold neither the contents of last_good nor a fully applied reload, the
\* in-progress marker of state.json is set.
InRollback(g) == pc[g] \in {"restore", "wipe", "wipe2", "copy", "copy2", "rconf"}
HoldsLastGood ==
  /\ bstate.lastGood # 0
  /\ rt.current = snapshot.runtime.current
  /\ nginxConf = snapshot.nginx
HoldsAppliedReload ==
  /\ rt.current # NoDir
  /\ rt.current.conf = nginxConf
  /\ rt.current.certs = nginxConf.ssl
C37_RollbackDetected ==
  \A g \in Timers :
    (InRollback(g) /\ ~HoldsLastGood /\ ~HoldsAppliedReload) => bstate.inProgress # 0


\* C39, as stated: at any time at most one debounce callback is waiting for
\* the reload mutex.
Waiting == {g \in Timers : pc[g] = "lock"}
C39_OneWaiter == Cardinality(Waiting) <= 1
\* C39: a callback comes to wait for the reload mutex only if its sequence is
\* current when it checks, and once it waits no later event cancels it: it
\* leaves the wait only by taking the free mutex and starting its reload body
\* (or with the process).  So one callback per elapsed debounce window can be
\* waiting, and each of them runs a reload body.
C39_WaitersRun ==
  [][\A g \in Timers :
       /\ (pc[g] = "cb" /\ pc'[g] = "lock") => g = seq
       /\ (pc[g] = "lock" /\ pc'[g] # "lock") =>
            \/ pc'[g] = "begin" /\ reloadMu = Free /\ reloadMu' = g
            \/ pc'[Main] = "down"]_vars
\* Two callbacks wait, the later event not having cancelled the earlier one.
C39_Witness == \E g, h \in Waiting : g < h /\ seq = h


\* C38: once App.Stop has returned no goroutine starts a reload body and no
\* debounce timer is armed (scheduleReload advances the sequence when it arms
\* one), for as long as the process lives.
StopReturned == pc[Main] = "stopped"
C38_QuietAfterStop ==
  [][(StopReturned /\ pc'[Main] = "stopped") =>
       /\ \A g \in Timers : pc[g] = "lock" => pc'[g] # "begin"
       /\ seq' = seq]_vars


\* C40: with one certificate store and one host, FindCertificate returns the
\* same certificate on every call.
C40_SameOnEveryCall == call.fn = "FindCertificate" => call.first = call.again

=============================================================================
